---- MODULE Spec2Model ----
(***************************************************************************)
(* A model of llm-fight-club: the judge rotation (core/judging.py), the    *)
(* judge call with its verdict parser (core/judging.py), the fighter call  *)
(* and the fight manager (core/fight.py) as driven by api/main.py.         *)
(***************************************************************************)
EXTENDS Integers, Sequences, FiniteSets, TLC

\* ------------------------------------------------------------------------
\* Bounds of the model
\* ------------------------------------------------------------------------

\* Number of model identifiers that exist; a pool is drawn from them.  With 6
\* identifiers a pool can hold more than 3 identifiers that are no fighters.
MaxPool == 6

\* Largest number of identifiers load_models returns.
MaxModels == 5

\* get_judges is called again only while rotation_index is below this cap.
MaxIndex == 2

\* Largest number of pieces (tags, blanks, words) of a fighter's raw response.
MaxRaw == 3

\* Largest score a judge response carries (the prompt asks for 0-10; the
\* parser enforces no range).
MaxScore == 10

\* The number of calls of resolve_winner a caller makes on one fight.
MaxResolve == 2

\* The fights of one process, and the seconds its clock runs through.
MaxFights == 3

MaxClock == 3

\* ------------------------------------------------------------------------
\* Program constants
\* ------------------------------------------------------------------------

\* get_single_judge_verdict(..., retries=2)
Retries == 2

\* data.get("score_a", 5), the regex default and the neutral verdict
DefaultScore == 5

\* len(judges) < 3 in get_judges
PanelSize == 3

\* get_fighter_response(..., retries=1)
FighterRetries == 1

\* len(text) > 5 in get_fighter_response
MinTextLen == 5

\* for round_num in range(1, 6)
LastRound == 5

\* if len(all_models) < 5 (api/main.py, line 38)
MinPool == 5

\* ------------------------------------------------------------------------
\* Model identifiers: "provider/name"
\* ------------------------------------------------------------------------

ProviderNames == <<"groq", "mistral", "cerebras">>

\* The i-th identifier: <<provider, name>> stands for the string "provider/name".
ModelId(i) == <<ProviderNames[((i - 1) % Len(ProviderNames)) + 1], i>>

AllModels == {ModelId(i) : i \in 1..MaxPool}

\* m.split('/')[0]
Provider(m) == m[1]

\* The value of fighter_a and fighter_b before the matchup selection.
NoModel == <<"", 0>>

\* The labs get_model_lab tells apart in the pools of the model.
Labs == <<"llama", "qwen">>

Range(s) == {s[i] : i \in 1..Len(s)}

\* All orderings of the set S (random.shuffle of a list holding S).
Shuffles(S) ==
    {s \in [1..Cardinality(S) -> S] : \A i, j \in 1..Cardinality(S) : i # j => s[i] # s[j]}

\* ------------------------------------------------------------------------
\* State
\* ------------------------------------------------------------------------

VARIABLES
    \* JudgeRotation
    pool,             \* self.pool
    rotation_index,   \* self.rotation_index
    rot_pc,           \* position inside get_judges: "idle", "fill", "returned"
    rot_fighters,     \* the fighters argument of the running/last get_judges call
    rot_judges,       \* the local list judges of get_judges
    attempts,         \* the local counter attempts of get_judges
    \* one call of get_single_judge_verdict
    call_pc,          \* "calling" (inside the for loop) or "returned"
    call_judge,       \* the judge_model argument
    call_attempt,     \* the loop variable attempt
    call_content,     \* the response content of the attempt made last
    call_path,        \* the return statement taken: "json", "literal", "regex", "error"
    call_verdict,     \* the returned dict
    \* one call of get_fighter_response
    resp_pc,          \* "calling" (inside the for loop) or "returned"
    resp_attempt,     \* the loop variable attempt
    resp_raws,        \* what the acompletion calls made so far gave, in order
    resp_text,        \* the returned text
    \* one fight: FightManager driven by websocket_endpoint
    fight_pc,         \* position in the flow of websocket_endpoint
    round_num,        \* the loop variable round_num
    judges,           \* self.judges
    fighter_script,   \* how the two fighter models answer in this fight
    judge_script,     \* how each judge model answers in this fight
    turn_attempt,     \* the loop variable attempt of the running fighter call
    history,          \* self.history
    t_a,              \* red's text of the running round
    t_b,              \* blue's text of the running round
    task_attempt,     \* per judge task: the loop variable attempt
    task_verdict,     \* per judge task: the verdict it returned (NoVerdict while running)
    rounds,           \* self.fight_data["rounds"]
    total_red_score,  \* self.total_red_score
    total_blue_score, \* self.total_blue_score
    judge_round_wins, \* self.judge_round_wins
    red_wins,         \* red_wins of websocket_endpoint (-1 before resolve_winner)
    blue_wins,        \* blue_wins of websocket_endpoint (-1 before resolve_winner)
    aggregate_scores, \* self.fight_data["aggregate_scores"]
    sd_started,       \* run_sudden_death was called
    sd_red,           \* sd_red of run_sudden_death
    sd_blue,          \* sd_blue of run_sudden_death
    winner_key,       \* winner_key of websocket_endpoint
    res,              \* the decision res of websocket_endpoint
    prompts,          \* the prompts p_a, p_b, sd_prompt given to the fighter calls, in order
    sd_verdicts,      \* sd_verdicts of run_sudden_death, as the for loop leaves them
    sd_votes,         \* winner_col of each iteration of that loop, in order
    fight_data,       \* self.fight_data["winner"] and self.fight_data["decision_type"]
    saved,            \* the documents save_result wrote, in order
    resolved,         \* the pairs the calls of resolve_winner returned, in order
    cooldowns,        \* the inter-round waits (asyncio.sleep(120)) that have elapsed
    \* the start of websocket_endpoint (api/main.py, lines 35-75)
    match_pc,         \* position in the flow: "load", "pick_a", "pick_b", ...
    all_models,       \* all_models, the list load_models returned
    lab,              \* get_model_lab of every identifier of all_models
    fighter_a,        \* fighter_a
    fighter_b,        \* fighter_b
    \* the websocket
    events,           \* the events sent to the consumer, in order
    \* the fights of one process and the results directory
    clock,            \* the wall clock, in seconds
    created,          \* per fight: the second its FightManager was built (NotYet before)
    fight_ids,        \* per fight: self.fight_id (NotYet before)
    written,          \* the fights whose save_result has run
    files             \* per fight id: the fight whose document the file holds (0: no file)

rotVars == <<pool, rotation_index, rot_pc, rot_fighters, rot_judges, attempts>>

callVars == <<call_pc, call_judge, call_attempt, call_content, call_path, call_verdict>>

respVars == <<resp_pc, resp_attempt, resp_raws, resp_text>>

fightVars == <<fight_pc, round_num, judges, fighter_script, judge_script, turn_attempt,
               history, t_a, t_b, task_attempt, task_verdict, rounds, total_red_score,
               total_blue_score, judge_round_wins, red_wins, blue_wins, aggregate_scores,
               sd_started, sd_red, sd_blue, winner_key, res, prompts, sd_verdicts,
               sd_votes, fight_data, saved, resolved, cooldowns>>

matchVars == <<match_pc, all_models, lab, fighter_a, fighter_b>>

saveVars == <<clock, created, fight_ids, written, files>>

vars == <<rotVars, callVars, respVars, fightVars, matchVars, events, saveVars>>

\* ------------------------------------------------------------------------
\* JudgeRotation (core/judging.py)
\* ------------------------------------------------------------------------

\* __init__: the pool is de-duplicated and shuffled, the index starts at 0.
RotationInit ==
    /\ pool \in UNION {Shuffles({ModelId(i) : i \in 1..k}) : k \in 0..MaxPool}
    /\ rotation_index = 0
    /\ rot_pc = "idle"
    /\ rot_fighters = {}
    /\ rot_judges = <<>>
    /\ attempts = 0

RotationIdle ==
    /\ pool = <<>>
    /\ rotation_index = 0
    /\ rot_pc = "idle"
    /\ rot_fighters = {}
    /\ rot_judges = <<>>
    /\ attempts = 0

\* A providers dict that holds only the provider of the first identifier.
PoolProvidersFirst(p) == IF p = <<>> THEN {} ELSE {Provider(p[1])}

\* The keys of the providers dict built from the pool.
PoolProviders(p) == {Provider(p[i]) : i \in 1..Len(p)}

\* candidates = [m for m in providers[p] if m not in fighters and m not in judges]
Candidates(p, prov, fighters, chosen) ==
    {m \in Range(p) : Provider(m) = prov /\ m \notin fighters /\ m \notin Range(chosen)}

\* The diversity pass over the shuffled provider list `order`, from the judges
\* chosen so far: the set of lists it can end with (one per random.choice).
RECURSIVE DiversityPass(_, _, _, _)
DiversityPass(p, order, fighters, chosen) ==
    IF order = <<>> \/ Len(chosen) >= PanelSize
    THEN {chosen}
    ELSE LET cands == Candidates(p, Head(order), fighters, chosen)
         IN  IF cands = {}
             THEN DiversityPass(p, Tail(order), fighters, chosen)
             ELSE UNION {DiversityPass(p, Tail(order), fighters, Append(chosen, c)) : c \in cands}

\* A get_judges without the diversity pass: the fill pass starts from an
\* empty list.
DiversityOutcomesNone(p, fighters) == {<<>>}

\* active_providers is shuffled: every order of the provider keys can be walked.
DiversityOutcomes(p, fighters) ==
    UNION {DiversityPass(p, order, fighters, <<>>) : order \in Shuffles(PoolProviders(p))}

\* get_judges up to the start of the fill pass (lines 19-41).
GetJudgesStart ==
    /\ rot_pc = "idle"
    /\ rotation_index < MaxIndex
    /\ \E fighters \in SUBSET AllModels :
         /\ Cardinality(fighters) = 2
         /\ rot_fighters' = fighters
         /\ rot_judges' \in DiversityOutcomes(pool, fighters)
    /\ attempts' = 0
    /\ rot_pc' = "fill"
    /\ UNCHANGED <<pool, rotation_index>>
    /\ UNCHANGED <<callVars, respVars, fightVars, matchVars, events, saveVars>>

\* A fill pass that gives up one step before it has walked the whole pool.
FillConditionShort == Len(rot_judges) < PanelSize /\ attempts < Len(pool) - 1

\* A fill pass without the cap on attempts: it goes on until 3 judges are
\* chosen.
FillConditionUncapped == Len(rot_judges) < PanelSize /\ Len(pool) > 0

\* The condition of the while loop of the fill pass.
FillCondition == Len(rot_judges) < PanelSize /\ attempts < Len(pool) * 2

\* A read of the pool at the index itself, without the modulo.
FillPositionNoWrap == rotation_index + 1

\* self.rotation_index % len(self.pool), as a position counted from 1
FillPosition == (rotation_index % Len(pool)) + 1

\* judge = self.pool[self.rotation_index % len(self.pool)]
FillCandidate == pool[FillPosition]

\* A fill pass that does not look at the judges already chosen.
FillEligibleNotFighter == FillCandidate \notin rot_fighters

\* if judge not in fighters and judge not in judges (line 44)
FillEligible == FillCandidate \notin rot_fighters /\ FillCandidate \notin Range(rot_judges)

\* One iteration of the fill pass (lines 42-47).
FillStep ==
    /\ rot_pc = "fill"
    /\ FillCondition
    /\ rot_judges' = IF FillEligible THEN Append(rot_judges, FillCandidate) ELSE rot_judges
    /\ rotation_index' = rotation_index + 1
    /\ attempts' = attempts + 1
    /\ UNCHANGED <<pool, rot_pc, rot_fighters>>
    /\ UNCHANGED <<callVars, respVars, fightVars, matchVars, events, saveVars>>

\* return judges (line 49).
GetJudgesReturn ==
    /\ rot_pc = "fill"
    /\ ~FillCondition
    /\ rot_pc' = "returned"
    /\ UNCHANGED <<pool, rotation_index, rot_fighters, rot_judges, attempts>>
    /\ UNCHANGED <<callVars, respVars, fightVars, matchVars, events, saveVars>>

\* The caller takes the returned list; the locals of the call are gone.
GetJudgesDone ==
    /\ rot_pc = "returned"
    /\ rot_pc' = "idle"
    /\ rot_fighters' = {}
    /\ rot_judges' = <<>>
    /\ attempts' = 0
    /\ UNCHANGED <<pool, rotation_index>>
    /\ UNCHANGED <<callVars, respVars, fightVars, matchVars, events, saveVars>>

\* ------------------------------------------------------------------------
\* The judge response and the verdict parser (core/judging.py, lines 84-174)
\* ------------------------------------------------------------------------

\* A score entry of a response: absent, present but not a number, or a number.
Missing == [tag |-> "missing", val |-> 0]
NotANumber == [tag |-> "bad", val |-> 0]
Num(n) == [tag |-> "int", val |-> n]

ScoreFields == {Missing, NotANumber} \cup {Num(n) : n \in 0..MaxScore}

\* What one attempt's acompletion call gives:
\*   "raise"   the call raises (timeout, provider error)
\*   "none"    message.content is None
\*   "nonobj"  content is valid JSON that is no object (a list, a number)
\*   "json"    content is a JSON object
\*   "pydict"  content holds a Python-literal dict that is no valid JSON
\*   "prose"   content is free text with no {...} block
\* a, b are the score_a and score_b entries; oneline tells whether the two
\* entries stand on one line of the text.
Content(kind, a, b, oneline) == [kind |-> kind, a |-> a, b |-> b, oneline |-> oneline]

Raise == Content("raise", Missing, Missing, TRUE)
NoneContent == Content("none", Missing, Missing, TRUE)
NonObject == Content("nonobj", Missing, Missing, TRUE)

Contents ==
    {Raise, NoneContent, NonObject} \cup
    {Content(k, a, b, o) : k \in {"json", "pydict", "prose"}, a \in ScoreFields,
                           b \in ScoreFields, o \in BOOLEAN}

\* The text of a content, as the tokens the score regexes see: a label, the
\* digits that follow it, other words, and line ends.
FieldText(label, f) ==
    IF f.tag = "missing" THEN <<>>
    ELSE IF f.tag = "bad" THEN <<[t |-> label, n |-> 0], [t |-> "word", n |-> 0]>>
    ELSE <<[t |-> label, n |-> 0], [t |-> "digits", n |-> f.val]>>

Text(c) ==
    FieldText("score_a", c.a)
        \o (IF c.oneline THEN <<>> ELSE <<[t |-> "newline", n |-> 0]>>)
        \o FieldText("score_b", c.b)

\* .*?(\d+) from position i: the first digits before the end of the line
\* (without DOTALL the dot does not cross a newline); 0 when there are none.
RECURSIVE DigitsFrom(_, _)
DigitsFrom(toks, i) ==
    IF i > Len(toks) \/ toks[i].t = "newline" THEN 0
    ELSE IF toks[i].t = "digits" THEN i
    ELSE DigitsFrom(toks, i + 1)

\* re.search(label + r".*?(\d+)", content): the leftmost label that digits follow
\* on its line; the default when there is no match.
RECURSIVE RegexFrom(_, _, _)
RegexFrom(toks, label, i) ==
    IF i > Len(toks) THEN DefaultScore
    ELSE IF toks[i].t = label /\ DigitsFrom(toks, i + 1) # 0
         THEN toks[DigitsFrom(toks, i + 1)].n
         ELSE RegexFrom(toks, label, i + 1)

RegexScore(c, label) == RegexFrom(Text(c), label, 1)

\* int(data.get(key, 5)) on a decoded dict; raises on a value that is no number.
IntOf(f) == IF f.tag = "missing" THEN DefaultScore ELSE f.val

Scores(a, b) == [st |-> "ok", a |-> a, b |-> b]
Fallback == [st |-> "fallback", a |-> 0, b |-> 0]
Raised == [st |-> "raise", a |-> 0, b |-> 0]

\* Lines 90-92: json.loads and the two int() conversions.  A decode error, a
\* ValueError or a TypeError goes to the fallbacks; the AttributeError of .get
\* on a decoded non-object is not caught there and leaves the attempt.
StrictJson(c) ==
    IF c.kind = "nonobj" THEN Raised
    ELSE IF c.kind = "json" /\ c.a.tag # "bad" /\ c.b.tag # "bad"
         THEN Scores(IntOf(c.a), IntOf(c.b))
         ELSE Fallback

\* Lines 126-147: the literal parse of the {...} block.  The statement
\* "import ast" of line 102 makes ast a local name of the function, and on
\* this path it was never bound: when the block is found, ast.literal_eval
\* raises UnboundLocalError, and the bare except swallows it (as it does the
\* TypeError of re.search on None).  No content is parsed here.
LiteralEval(c) == Fallback

\* Lines 150-157: the regex fallback; re.search on None raises a TypeError
\* inside the except clause, which the outer except catches.
RegexParse(c) ==
    IF c.kind = "none" THEN Raised
    ELSE Scores(RegexScore(c, "score_a"), RegexScore(c, "score_b"))

\* The ordered parse chain of one attempt: the scores parsed and the path
\* that parsed them, or "raise".
ParseChain(c) ==
    IF c.kind = "raise" THEN [p |-> Raised, path |-> "none"]
    ELSE IF StrictJson(c).st # "fallback" THEN [p |-> StrictJson(c), path |-> "json"]
    ELSE IF LiteralEval(c).st # "fallback" THEN [p |-> LiteralEval(c), path |-> "literal"]
    ELSE [p |-> RegexParse(c), path |-> "regex"]

\* A tie-breaker that forgets the else branch: nothing is raised when the
\* coin falls the other way.
TieBreakOneSided(a, b, coin) ==
    IF a = b /\ coin THEN <<a + 1, b>> ELSE <<a, b>>

\* A code without the tie-breaker.
TieBreakNone(a, b, coin) == <<a, b>>

\* The tie-breaker (lines 114-116, 141-143, 159-161).
TieBreak(a, b, coin) ==
    IF a = b
    THEN IF coin THEN <<a + 1, b>> ELSE <<a, b + 1>>
    ELSE <<a, b>>

Verdict(j, a, b, reason) == [judge |-> j, score_a |-> a, score_b |-> b, reason |-> reason]

NoVerdict == Verdict(<<"", 0>>, 0, 0, "")

\* An exhaustion that returns no verdict at all.
ErrorVerdictNone(j) == NoVerdict

\* An exhaustion verdict whose reason lacks the marker.
ErrorVerdictUnmarked(j) == Verdict(j, DefaultScore, DefaultScore, "Timeout/Error")

\* Line 171: the verdict returned when the last attempt fails.
ErrorVerdict(j) == Verdict(j, DefaultScore, DefaultScore, "Error:")

\* One pass through the body of the for loop: the attempt returns a verdict
\* (done) or the loop goes on to the next attempt.
Attempt(j, attempt, c, coin) ==
    LET r == ParseChain(c)
        s == TieBreak(r.p.a, r.p.b, coin)
    IN  IF r.p.st = "ok"
        THEN [done |-> TRUE, verdict |-> Verdict(j, s[1], s[2], "reason"), path |-> r.path]
        ELSE IF attempt = Retries
             THEN [done |-> TRUE, verdict |-> ErrorVerdict(j), path |-> "error"]
             ELSE [done |-> FALSE, verdict |-> NoVerdict, path |-> "retry"]

CallInit ==
    /\ call_pc = "calling"
    /\ call_judge \in AllModels
    /\ call_attempt = 0
    /\ call_content = Raise
    /\ call_path = "none"
    /\ call_verdict = NoVerdict

CallIdle ==
    /\ call_pc = "idle"
    /\ call_judge = <<"", 0>>
    /\ call_attempt = 0
    /\ call_content = Raise
    /\ call_path = "none"
    /\ call_verdict = NoVerdict

\* One attempt of get_single_judge_verdict: the call, the parse chain, and
\* either the return or the next value of the loop variable.
JudgeAttempt ==
    /\ call_pc = "calling"
    /\ call_attempt <= Retries
    /\ \E c \in Contents, coin \in BOOLEAN :
         LET o == Attempt(call_judge, call_attempt, c, coin)
         IN  /\ call_content' = c
             /\ call_path' = o.path
             /\ call_verdict' = o.verdict
             /\ call_pc' = IF o.done THEN "returned" ELSE "calling"
             /\ call_attempt' = IF o.done THEN call_attempt ELSE call_attempt + 1
    /\ UNCHANGED call_judge
    /\ UNCHANGED <<rotVars, respVars, fightVars, matchVars, events, saveVars>>

\* The return after the loop (line 174) is never reached: with retries = 2
\* the attempt numbered 2 returns at line 118, 145, 163 or 171.

\* ------------------------------------------------------------------------
\* The fighter call (core/fight.py, lines 49-76) and clean_text (utils/text.py)
\* ------------------------------------------------------------------------

\* A text is a sequence of pieces: the tags "<think>" and "</think>", a blank
\* " ", the one-character word "x", the three-character word "abc", and longer
\* words.  Width is the number of characters of a piece.
Width(piece) ==
    CASE piece = "<think>" -> 7
      [] piece = "</think>" -> 8
      [] piece = " " -> 1
      [] piece = "x" -> 1
      [] piece = "abc" -> 3
      [] OTHER -> 8

RECURSIVE TextLen(_)
TextLen(text) == IF text = <<>> THEN 0 ELSE Width(Head(text)) + TextLen(Tail(text))

\* The position of the first "</think>" at or after i; 0 when there is none.
RECURSIVE CloseFrom(_, _)
CloseFrom(text, i) ==
    IF i > Len(text) THEN 0
    ELSE IF text[i] = "</think>" THEN i
    ELSE CloseFrom(text, i + 1)

\* re.sub(r'<think>.*?</think>', '', text, flags=re.DOTALL) from position i.
RECURSIVE RemoveThink(_, _)
RemoveThink(text, i) ==
    IF i > Len(text) THEN <<>>
    ELSE IF text[i] = "<think>" /\ CloseFrom(text, i + 1) # 0
         THEN RemoveThink(text, CloseFrom(text, i + 1) + 1)
         ELSE <<text[i]>> \o RemoveThink(text, i + 1)

\* str.strip(): blanks are dropped at both ends.
RECURSIVE StripLeft(_)
StripLeft(text) ==
    IF text # <<>> /\ Head(text) = " " THEN StripLeft(Tail(text)) ELSE text

RECURSIVE StripRight(_)
StripRight(text) ==
    IF text # <<>> /\ text[Len(text)] = " "
    THEN StripRight(SubSeq(text, 1, Len(text) - 1))
    ELSE text

\* clean_text (utils/text.py, lines 3-8)
clean_text(text) == StripRight(StripLeft(RemoveThink(text, 1)))

\* What one acompletion call of a fighter gives: it raises, its content is
\* None, or its content is a text.
RawRaise == [kind |-> "raise", text |-> <<>>]
RawNone == [kind |-> "none", text |-> <<>>]
RawText(text) == [kind |-> "text", text |-> text]

Pieces == {"<think>", "</think>", " ", "x", "abc"}

Raws ==
    {RawRaise, RawNone} \cup
    {RawText(text) : text \in UNION {[1..n -> Pieces] : n \in 0..MaxRaw}}

\* return "*[Fighter stood silent]*" (line 76)
Silence == <<"*[Fighter stood silent]*">>

\* The text of a raw response after clean_text; a raise gives none, and
\* clean_text(None) is "".
Cleaned(raw) == IF raw.kind = "text" THEN clean_text(raw.text) ELSE <<>>

\* A length test off by one: five characters pass.
LongEnoughOffByOne(text) == text # <<>> /\ TextLen(text) >= MinTextLen

\* if text and len(text) > 5 (line 71)
LongEnough(text) == text # <<>> /\ TextLen(text) > MinTextLen

\* One pass through the body of the for loop of get_fighter_response: the
\* attempt returns its text, or the loop goes on, or (after the last attempt)
\* the silence marker is returned.
FighterAttempt(attempt, raw) ==
    IF raw.kind # "raise" /\ LongEnough(Cleaned(raw))
    THEN [done |-> TRUE, text |-> Cleaned(raw)]
    ELSE IF attempt = FighterRetries
         THEN [done |-> TRUE, text |-> Silence]
         ELSE [done |-> FALSE, text |-> <<>>]

RespInit ==
    /\ resp_pc = "calling"
    /\ resp_attempt = 0
    /\ resp_raws = <<>>
    /\ resp_text = <<>>

RespIdle ==
    /\ resp_pc = "idle"
    /\ resp_attempt = 0
    /\ resp_raws = <<>>
    /\ resp_text = <<>>

\* One attempt of get_fighter_response.
FighterCallAttempt ==
    /\ resp_pc = "calling"
    /\ resp_attempt <= FighterRetries
    /\ \E raw \in Raws :
         LET o == FighterAttempt(resp_attempt, raw)
         IN  /\ resp_raws' = Append(resp_raws, raw)
             /\ resp_text' = o.text
             /\ resp_pc' = IF o.done THEN "returned" ELSE "calling"
             /\ resp_attempt' = IF o.done THEN resp_attempt ELSE resp_attempt + 1
    /\ UNCHANGED <<rotVars, callVars, fightVars, matchVars, events, saveVars>>

\* ------------------------------------------------------------------------
\* The fight: FightManager (core/fight.py) driven by websocket_endpoint
\* (api/main.py, lines 77-102)
\* ------------------------------------------------------------------------

\* The judges of the fight: a list get_judges returns for the pool of the
\* first five identifiers when the fighters are the first two.
FightJudges == <<ModelId(3), ModelId(4), ModelId(5)>>

JudgeIdx == 1..Len(FightJudges)

\* How a judge model answers over a fight.  A script gives, for round n
\* (n = LastRound + 1 is sudden death), the contents its attempts receive in
\* order.
Json(a, b) == Content("json", Num(a), Num(b), TRUE)

AllFail == <<Raise, Raise, Raise>>

JudgeScripts == {"red", "blue", "draw", "mixed"}

\* A panel none of whose judges ever answers.
PanelDown == [i \in JudgeIdx |-> "down"]

JudgeBehaviour(script, n) ==
    CASE script = "red" -> <<Json(7, 5)>>
      [] script = "blue" ->
            IF n % 2 = 1 THEN <<Content("prose", Num(4), Num(8), FALSE)>>
            ELSE <<Raise, Content("pydict", Num(5), Num(7), TRUE)>>
      [] script = "draw" ->
            IF n >= LastRound THEN AllFail
            ELSE IF n % 2 = 1 THEN <<Json(7, 5)>> ELSE <<Json(5, 7)>>
      [] script = "down" -> AllFail
      [] OTHER ->
            CASE n = 1 -> <<Json(6, 6)>>
              [] n = 2 -> <<Json(7, 5)>>
              [] n = 3 -> <<Json(5, 7)>>
              [] n = 4 -> <<NoneContent, NonObject, Raise>>
              [] n = 5 -> <<Content("prose", Missing, Missing, TRUE)>>
              [] OTHER -> <<Json(6, 6)>>

\* How the two fighter models answer over a fight: for a fighter and a round,
\* the raw responses its attempts receive in order.
RedWords == <<"red-1", "red-2", "red-3", "red-4", "red-5", "red-sd">>
BlueWords == <<"blue-1", "blue-2", "blue-3", "blue-4", "blue-5", "blue-sd">>

Speech(who, n) ==
    RawText(<<"<think>", "x", "</think>", " ", IF who = "red" THEN RedWords[n] ELSE BlueWords[n]>>)

FighterScripts == {"speak", "retry", "silent", "mute"}

FighterBehaviour(script, who, n) ==
    CASE script = "speak" -> <<Speech(who, n)>>
      [] script = "retry" ->
            IF who = "red" THEN <<RawRaise, Speech(who, n)>>
            ELSE <<RawText(<<" ", "abc", "x", "x">>), Speech(who, n)>>
      [] script = "mute" -> <<RawRaise, RawNone>>
      [] OTHER ->
            IF who = "red"
            THEN (IF n % 2 = 1 THEN <<RawRaise, RawRaise>> ELSE <<Speech(who, n)>>)
            ELSE <<RawNone, RawText(<<"<think>", "abc", "abc", "</think>">>)>>

\* An event as on_fight_event sends it: the type, the number its payload
\* carries (round, judge_index or duration; 0 when it has none) and the side
\* its payload names ("" when it names none).
Ev(type, num, who) == [type |-> type, num |-> num, who |-> who]

\* A prompt of a fighter call: the round, the fighter, the template and the
\* opponent text the template quotes (<<>> when it quotes none).
Prompt(n, who, p) == [round |-> n, fighter |-> who, kind |-> p.kind, quote |-> p.quote]

\* A turn-A prompt that quotes the entry before the last one of the history.
p_a_stale(n, hist) ==
    IF n = 1 THEN [kind |-> "for", quote |-> <<>>]
    ELSE [kind |-> "rebut", quote |-> hist[Len(hist) - 1].content]

\* p_a (fight.py, line 89)
p_a(n, hist) ==
    IF n = 1 THEN [kind |-> "for", quote |-> <<>>]
    ELSE [kind |-> "rebut", quote |-> hist[Len(hist)].content]

\* p_b (line 96)
p_b(n, text_a) ==
    IF n = 1 THEN [kind |-> "against", quote |-> <<>>]
    ELSE [kind |-> "rebut", quote |-> text_a]

\* sd_prompt (line 157)
sd_prompt == [kind |-> "sudden_death", quote |-> <<>>]

NoTasks == [i \in JudgeIdx |-> 0]
NoVerdicts == [i \in JudgeIdx |-> NoVerdict]

\* FightManager.__init__ and the start of round 1.
FightInit ==
    /\ fight_pc = "turn_a"
    /\ round_num = 1
    /\ judges = FightJudges
    /\ fighter_script \in FighterScripts
    /\ judge_script \in [JudgeIdx -> JudgeScripts] \cup {PanelDown}
    /\ turn_attempt = 0
    /\ history = <<>>
    /\ t_a = <<>>
    /\ t_b = <<>>
    /\ task_attempt = NoTasks
    /\ task_verdict = NoVerdicts
    /\ rounds = <<>>
    /\ total_red_score = 0
    /\ total_blue_score = 0
    /\ judge_round_wins = [j \in Range(FightJudges) |-> [red |-> 0, blue |-> 0]]
    /\ red_wins = -1
    /\ blue_wins = -1
    /\ aggregate_scores = [red |-> 0, blue |-> 0]
    /\ sd_started = FALSE
    /\ sd_red = 0
    /\ sd_blue = 0
    /\ winner_key = "none"
    /\ res = "none"
    /\ prompts = <<>>
    /\ sd_verdicts = <<>>
    /\ sd_votes = <<>>
    /\ fight_data = [winner |-> "None", decision_type |-> "None"]
    /\ saved = <<>>
    /\ resolved = <<>>
    /\ cooldowns = 0
    /\ match_pc = "fighting"
    /\ all_models = [i \in 1..5 |-> ModelId(i)]
    /\ lab = [m \in {ModelId(i) : i \in 1..5} |-> Labs[((m[2] - 1) % Len(Labs)) + 1]]
    /\ fighter_a = ModelId(1)
    /\ fighter_b = ModelId(2)
    /\ events = <<Ev("fight_init", 0, "")>>

FightIdle ==
    /\ fight_pc = "idle"
    /\ round_num = 0
    /\ judges = <<>>
    /\ fighter_script = "speak"
    /\ judge_script = <<>>
    /\ turn_attempt = 0
    /\ history = <<>>
    /\ t_a = <<>>
    /\ t_b = <<>>
    /\ task_attempt = <<>>
    /\ task_verdict = <<>>
    /\ rounds = <<>>
    /\ total_red_score = 0
    /\ total_blue_score = 0
    /\ judge_round_wins = <<>>
    /\ red_wins = -1
    /\ blue_wins = -1
    /\ aggregate_scores = [red |-> 0, blue |-> 0]
    /\ sd_started = FALSE
    /\ sd_red = 0
    /\ sd_blue = 0
    /\ winner_key = "none"
    /\ res = "none"
    /\ prompts = <<>>
    /\ sd_verdicts = <<>>
    /\ sd_votes = <<>>
    /\ fight_data = [winner |-> "None", decision_type |-> "None"]
    /\ saved = <<>>
    /\ resolved = <<>>
    /\ cooldowns = 0

\* No connection is being served.
MatchIdle ==
    /\ match_pc = "idle"
    /\ all_models = <<>>
    /\ lab = <<>>
    /\ fighter_a = NoModel
    /\ fighter_b = NoModel
    /\ events = <<>>

\* A turn that sends its opening events again before every attempt.
TurnStartedEveryAttempt(who, before) == before \o <<Ev("fighter_thinking", 0, who)>>

\* The events a turn sends before its call is made: sent once, ahead of the
\* first attempt.
TurnStarted(who, before) ==
    IF turn_attempt = 0 THEN before \o <<Ev("fighter_thinking", 0, who)>> ELSE <<>>

\* Verdict events sent under a type of their own.
VerdictEventsRenamed(verdicts) == [i \in 1..Len(verdicts) |-> Ev("verdict", i - 1, "")]

\* The verdict_received events of score_round (lines 128-134).
VerdictEvents(verdicts) == [i \in 1..Len(verdicts) |-> Ev("verdict_received", i - 1, "")]

\* winner of score_round (lines 137-139).
RoundWinner(verdicts) ==
    LET red == Cardinality({i \in 1..Len(verdicts) : verdicts[i].score_a > verdicts[i].score_b})
        blue == Cardinality({i \in 1..Len(verdicts) : verdicts[i].score_b > verdicts[i].score_a})
    IN  IF red > blue THEN "red" ELSE IF blue > red THEN "blue" ELSE "draw"

\* The round a call belongs to: sudden death counts as round LastRound + 1.
CallRound == IF sd_started THEN LastRound + 1 ELSE round_num

\* The raw response the running fighter call receives on its next attempt.
NextRaw(who) == FighterBehaviour(fighter_script, who, CallRound)[turn_attempt + 1]

\* run_round, turn A (lines 89-93): one attempt of red's call; when the call
\* returns, the text is recorded.
TurnA ==
    /\ fight_pc = "turn_a"
    /\ LET o == FighterAttempt(turn_attempt, NextRaw("red"))
       IN  IF o.done
           THEN /\ t_a' = o.text
                /\ history' = Append(history, [content |-> o.text, fighter |-> "red"])
                /\ turn_attempt' = 0
                /\ fight_pc' = "turn_b"
                /\ events' = events \o TurnStarted("red", <<Ev("round_start", round_num, "")>>)
                                 \o <<Ev("fighter_speaking", 0, "red")>>
           ELSE /\ turn_attempt' = turn_attempt + 1
                /\ events' = events \o TurnStarted("red", <<Ev("round_start", round_num, "")>>)
                /\ UNCHANGED <<t_a, history, fight_pc>>
    /\ prompts' = IF turn_attempt = 0
                  THEN Append(prompts, Prompt(round_num, "red", p_a(round_num, history)))
                  ELSE prompts
    /\ UNCHANGED <<round_num, judges, fighter_script, judge_script, t_b, task_attempt,
                   task_verdict, rounds, total_red_score, total_blue_score,
                   judge_round_wins, red_wins, blue_wins, aggregate_scores, sd_started,
                   sd_red, sd_blue, winner_key, res>>
    /\ UNCHANGED <<rotVars, callVars, respVars, matchVars, saveVars>>
    /\ UNCHANGED <<sd_verdicts, sd_votes, fight_data, cooldowns, saved, resolved>>

\* A turn B that may start while turn A is still under way.
TurnBReadyEarly == fight_pc \in {"turn_a", "turn_b"}

\* Turn B starts where the await of red's call has returned and red's text
\* has been sent and recorded (lines 91-93).
TurnBReady == fight_pc = "turn_b"

\* run_round, turn B (lines 96-100), and the creation of the judge tasks
\* (line 108).
TurnB ==
    /\ TurnBReady
    /\ LET o == FighterAttempt(turn_attempt, NextRaw("blue"))
       IN  IF o.done
           THEN /\ t_b' = o.text
                /\ history' = Append(history, [content |-> o.text, fighter |-> "blue"])
                /\ turn_attempt' = 0
                /\ fight_pc' = "judging"
                /\ events' = events \o TurnStarted("blue", <<>>)
                                 \o <<Ev("fighter_speaking", 0, "blue"), Ev("judging_start", 0, "")>>
           ELSE /\ turn_attempt' = turn_attempt + 1
                /\ events' = events \o TurnStarted("blue", <<>>)
                /\ UNCHANGED <<t_b, history, fight_pc>>
    /\ prompts' = IF turn_attempt = 0
                  THEN Append(prompts, Prompt(round_num, "blue", p_b(round_num, t_a)))
                  ELSE prompts
    /\ UNCHANGED <<round_num, judges, fighter_script, judge_script, t_a, task_attempt,
                   task_verdict, rounds, total_red_score, total_blue_score,
                   judge_round_wins, red_wins, blue_wins, aggregate_scores, sd_started,
                   sd_red, sd_blue, winner_key, res>>
    /\ UNCHANGED <<rotVars, callVars, respVars, matchVars, saveVars>>
    /\ UNCHANGED <<sd_verdicts, sd_votes, fight_data, cooldowns, saved, resolved>>

\* One attempt of the get_single_judge_verdict task of judge i, in a round
\* or in sudden death.  The tasks run concurrently: any running task may take
\* the next step.
JudgeTask(i) ==
    /\ fight_pc \in {"judging", "sd_judging"}
    /\ task_verdict[i] = NoVerdict
    /\ \E coin \in BOOLEAN :
         LET c == JudgeBehaviour(judge_script[i], CallRound)[task_attempt[i] + 1]
             o == Attempt(judges[i], task_attempt[i], c, coin)
         IN  /\ task_verdict' = [task_verdict EXCEPT ![i] = o.verdict]
             /\ task_attempt' = [task_attempt EXCEPT ![i] = IF o.done THEN @ ELSE @ + 1]
    /\ UNCHANGED <<fight_pc, round_num, judges, fighter_script, judge_script, turn_attempt,
                   history, t_a, t_b, rounds, total_red_score, total_blue_score,
                   judge_round_wins, red_wins, blue_wins, aggregate_scores, sd_started,
                   sd_red, sd_blue, winner_key, res>>
    /\ UNCHANGED <<rotVars, callVars, respVars, matchVars, saveVars>>
    /\ UNCHANGED <<prompts, sd_verdicts, sd_votes, fight_data, cooldowns, saved, resolved, events>>

\* verdicts = await asyncio.gather(*judge_tasks): the results in the order of
\* the tasks, once every task has returned.
AllReturned == \A i \in JudgeIdx : task_verdict[i] # NoVerdict

Gather(results) == [i \in 1..Len(judges) |-> results[i]]

\* A score_round that leaves the verdicts of failed judges out of the record.
AppendVerdictUnlessError(round_verdicts, v) ==
    IF v.reason = "Error:" THEN round_verdicts ELSE Append(round_verdicts, v)

\* round_verdicts.append(v) (line 135)
AppendVerdict(round_verdicts, v) == Append(round_verdicts, v)

\* A running total that leaves out the scores of a drawn verdict.
AddScoreUnlessDrawn(total, v, key) ==
    IF v.score_a = v.score_b THEN total ELSE total + v[key]

\* self.total_red_score += v['score_a'], self.total_blue_score += v['score_b']
\* (lines 121-122)
AddScore(total, v, key) == total + v[key]

\* The for loop of score_round (lines 115-135) from index idx on.
RECURSIVE ScoreLoop(_, _, _)
ScoreLoop(verdicts, idx, acc) ==
    IF idx > Len(verdicts) THEN acc
    ELSE LET v == verdicts[idx]
             j_name == judges[idx]
             red == IF v.score_a > v.score_b THEN 1 ELSE 0
             blue == IF v.score_b > v.score_a THEN 1 ELSE 0
         IN  ScoreLoop(verdicts, idx + 1,
                 [red_round_wins |-> acc.red_round_wins + red,
                  blue_round_wins |-> acc.blue_round_wins + blue,
                  total_red_score |-> AddScore(acc.total_red_score, v, "score_a"),
                  total_blue_score |-> AddScore(acc.total_blue_score, v, "score_b"),
                  judge_round_wins |->
                      [acc.judge_round_wins EXCEPT ![j_name] =
                          [red |-> @.red + red, blue |-> @.blue + blue]],
                  round_verdicts |-> AppendVerdict(acc.round_verdicts, v)])

\* A round record numbered from 0.
RoundRecordFromZero(n, text_a, text_b, round_verdicts) ==
    [round |-> n - 1, red_text |-> text_a, blue_text |-> text_b, verdicts |-> round_verdicts]

\* The dict appended to self.fight_data["rounds"] (lines 148-153).
RoundRecord(n, text_a, text_b, round_verdicts) ==
    [round |-> n, red_text |-> text_a, blue_text |-> text_b, verdicts |-> round_verdicts]

\* score_round after the gather (lines 111-153).
ScoreRound ==
    /\ fight_pc = "judging"
    /\ AllReturned
    /\ LET acc == ScoreLoop(Gather(task_verdict), 1,
                      [red_round_wins |-> 0, blue_round_wins |-> 0,
                       total_red_score |-> total_red_score,
                       total_blue_score |-> total_blue_score,
                       judge_round_wins |-> judge_round_wins,
                       round_verdicts |-> <<>>])
       IN  /\ total_red_score' = acc.total_red_score
           /\ total_blue_score' = acc.total_blue_score
           /\ judge_round_wins' = acc.judge_round_wins
           /\ rounds' = Append(rounds, RoundRecord(round_num, t_a, t_b, acc.round_verdicts))
    /\ events' = events \o VerdictEvents(Gather(task_verdict))
                         \o <<Ev("round_result", round_num, RoundWinner(Gather(task_verdict)))>>
    /\ task_attempt' = NoTasks
    /\ task_verdict' = NoVerdicts
    /\ fight_pc' = IF round_num < LastRound THEN "intermission" ELSE "finalize"
    /\ UNCHANGED <<round_num, judges, fighter_script, judge_script, turn_attempt, history,
                   t_a, t_b, red_wins, blue_wins, aggregate_scores, sd_started, sd_red,
                   sd_blue, winner_key, res>>
    /\ UNCHANGED <<rotVars, callVars, respVars, matchVars, saveVars>>
    /\ UNCHANGED <<prompts, sd_verdicts, sd_votes, fight_data, cooldowns, saved, resolved>>

\* The intermission (api/main.py, lines 82-84) and the start of the next round.
Intermission ==
    /\ fight_pc = "intermission"
    /\ round_num' = round_num + 1
    /\ fight_pc' = "turn_a"
    /\ cooldowns' = cooldowns + 1
    /\ events' = Append(events, Ev("intermission", 120, ""))
    /\ UNCHANGED <<judges, fighter_script, judge_script, turn_attempt, history, t_a, t_b,
                   task_attempt, task_verdict, rounds, total_red_score, total_blue_score,
                   judge_round_wins, red_wins, blue_wins, aggregate_scores, sd_started,
                   sd_red, sd_blue, winner_key, res>>
    /\ UNCHANGED <<rotVars, callVars, respVars, matchVars, saveVars>>
    /\ UNCHANGED <<prompts, sd_verdicts, sd_votes, fight_data, saved, resolved>>

\* list.index(x): the first position of x.
IndexOf(seq, x) == CHOOSE i \in 1..Len(seq) : seq[i] = x /\ \A k \in 1..(i - 1) : seq[k] # x

\* sum(r["verdicts"][idx][key] for r in rounds)
RECURSIVE SumScores(_, _, _)
SumScores(rs, idx, key) ==
    IF rs = <<>> THEN 0 ELSE Head(rs).verdicts[idx][key] + SumScores(Tail(rs), idx, key)

\* A pick that looks at the judge's verdict of the last logged round only.
JudgeWinnerByLastRound(js, rs, j) ==
    LET v == rs[Len(rs)].verdicts[IndexOf(js, j)]
    IN  IF v.score_a > v.score_b THEN "red"
        ELSE IF v.score_b > v.score_a THEN "blue"
        ELSE "draw"

\* The pick of judge j (fight.py, lines 197-201).
JudgeWinner(js, rs, j) ==
    LET r_sum == SumScores(rs, IndexOf(js, j), "score_a")
        b_sum == SumScores(rs, IndexOf(js, j), "score_b")
    IN  IF r_sum > b_sum THEN "red"
        ELSE IF b_sum > r_sum THEN "blue"
        ELSE "draw"

\* list.count(x)
Count(seq, x) == Cardinality({i \in 1..Len(seq) : seq[i] = x})

\* A resolve_winner that returns the two counts in the other order.
resolve_winner_swapped(js, rs) ==
    LET judge_winners == [i \in 1..Len(js) |-> JudgeWinner(js, rs, js[i])]
    IN  <<Count(judge_winners, "blue"), Count(judge_winners, "red")>>

\* A resolve_winner whose list judge_winners is kept on the object, so that a
\* later call counts the picks of the earlier calls again.
resolve_winner_kept(js, rs) ==
    LET judge_winners == [i \in 1..Len(js) |-> JudgeWinner(js, rs, js[i])]
        before == IF resolved = <<>> THEN <<0, 0>> ELSE resolved[Len(resolved)]
    IN  <<before[1] + Count(judge_winners, "red"), before[2] + Count(judge_winners, "blue")>>

\* resolve_winner (lines 195-204): the pair (red_wins, blue_wins).
resolve_winner(js, rs) ==
    LET judge_winners == [i \in 1..Len(js) |-> JudgeWinner(js, rs, js[i])]
    IN  <<Count(judge_winners, "red"), Count(judge_winners, "blue")>>

\* A decision that calls every majority of two unanimous.
DecisionByMajority(rw, bw) == IF rw >= 2 \/ bw >= 2 THEN "Unanimous" ELSE "Split"

\* A tie test that sees only the case of no pick at all.
NeedsSuddenDeathNoPicks(rw, bw) == rw = 0 /\ bw = 0

\* if red_wins == blue_wins (api/main.py, line 90)
NeedsSuddenDeath(rw, bw) == rw = bw

\* The decision of a fight that needs no sudden death (api/main.py, line 94).
Decision(rw, bw) == IF rw = 3 \/ bw = 3 THEN "Unanimous" ELSE "Split"

\* Step 7 of websocket_endpoint (lines 87-94): resolve_winner, then either
\* the start of sudden death or the decision.
Finalize ==
    /\ fight_pc = "finalize"
    /\ aggregate_scores' = [red |-> total_red_score, blue |-> total_blue_score]
    /\ LET w == resolve_winner(judges, rounds)
       IN  /\ red_wins' = w[1]
           /\ blue_wins' = w[2]
           /\ resolved' = Append(resolved, w)
           /\ IF NeedsSuddenDeath(w[1], w[2])
              THEN /\ sd_started' = TRUE
                   /\ fight_pc' = "sd_turn_a"
                   /\ winner_key' = "blue"
                   /\ events' = Append(events, Ev("sudden_death_start", 0, ""))
                   /\ UNCHANGED res
              ELSE /\ winner_key' = IF w[1] > w[2] THEN "red" ELSE "blue"
                   /\ res' = Decision(w[1], w[2])
                   /\ fight_pc' = "complete"
                   /\ UNCHANGED <<sd_started, events>>
    /\ UNCHANGED <<round_num, judges, fighter_script, judge_script, turn_attempt, history,
                   t_a, t_b, task_attempt, task_verdict, rounds, total_red_score,
                   total_blue_score, judge_round_wins, sd_red, sd_blue>>
    /\ UNCHANGED <<rotVars, callVars, respVars, matchVars, saveVars>>
    /\ UNCHANGED <<prompts, sd_verdicts, sd_votes, fight_data, cooldowns, saved>>

\* One call of resolve_winner on the finished round log (fight.py, lines
\* 193-204), made by a caller that may call it again.
ResolveWinnerCall ==
    /\ fight_pc = "finalize"
    /\ Len(resolved) < MaxResolve
    /\ aggregate_scores' = [red |-> total_red_score, blue |-> total_blue_score]
    /\ resolved' = Append(resolved, resolve_winner(judges, rounds))
    /\ UNCHANGED <<fight_pc, round_num, judges, fighter_script, judge_script, turn_attempt,
                   history, t_a, t_b, task_attempt, task_verdict, rounds, total_red_score,
                   total_blue_score, judge_round_wins, red_wins, blue_wins, sd_started,
                   sd_red, sd_blue, winner_key, res>>
    /\ UNCHANGED <<rotVars, callVars, respVars, matchVars, saveVars>>
    /\ UNCHANGED <<prompts, sd_verdicts, sd_votes, fight_data, cooldowns, saved, events>>

\* run_sudden_death, red's call (lines 159-161): t_a is a local here and
\* the history is not extended.
SuddenDeathTurnA ==
    /\ fight_pc = "sd_turn_a"
    /\ LET o == FighterAttempt(turn_attempt, NextRaw("red"))
       IN  IF o.done
           THEN /\ t_a' = o.text
                /\ turn_attempt' = 0
                /\ fight_pc' = "sd_turn_b"
                /\ events' = events \o TurnStarted("red", <<>>)
                                 \o <<Ev("fighter_speaking", 0, "red")>>
           ELSE /\ turn_attempt' = turn_attempt + 1
                /\ events' = events \o TurnStarted("red", <<>>)
                /\ UNCHANGED <<t_a, fight_pc>>
    /\ prompts' = IF turn_attempt = 0
                  THEN Append(prompts, Prompt(CallRound, "red", sd_prompt))
                  ELSE prompts
    /\ UNCHANGED <<round_num, judges, fighter_script, judge_script, history, t_b,
                   task_attempt, task_verdict, rounds, total_red_score, total_blue_score,
                   judge_round_wins, red_wins, blue_wins, aggregate_scores, sd_started,
                   sd_red, sd_blue, winner_key, res>>
    /\ UNCHANGED <<rotVars, callVars, respVars, matchVars, saveVars>>
    /\ UNCHANGED <<sd_verdicts, sd_votes, fight_data, cooldowns, saved, resolved>>

\* run_sudden_death, blue's call (lines 163-165) and the creation of the
\* judge tasks (line 169).
SuddenDeathTurnB ==
    /\ fight_pc = "sd_turn_b"
    /\ LET o == FighterAttempt(turn_attempt, NextRaw("blue"))
       IN  IF o.done
           THEN /\ t_b' = o.text
                /\ turn_attempt' = 0
                /\ fight_pc' = "sd_judging"
                /\ events' = events \o TurnStarted("blue", <<>>)
                                 \o <<Ev("fighter_speaking", 0, "blue"), Ev("judging_start", 0, "")>>
           ELSE /\ turn_attempt' = turn_attempt + 1
                /\ events' = events \o TurnStarted("blue", <<>>)
                /\ UNCHANGED <<t_b, fight_pc>>
    /\ prompts' = IF turn_attempt = 0
                  THEN Append(prompts, Prompt(CallRound, "blue", sd_prompt))
                  ELSE prompts
    /\ UNCHANGED <<round_num, judges, fighter_script, judge_script, history, t_a,
                   task_attempt, task_verdict, rounds, total_red_score, total_blue_score,
                   judge_round_wins, red_wins, blue_wins, aggregate_scores, sd_started,
                   sd_red, sd_blue, winner_key, res>>
    /\ UNCHANGED <<rotVars, callVars, respVars, matchVars, saveVars>>
    /\ UNCHANGED <<sd_verdicts, sd_votes, fight_data, cooldowns, saved, resolved>>

\* A sudden-death vote that goes to red only on a strictly higher score.
FavoursRedStrict(v) == v.score_a > v.score_b

\* if v['score_a'] >= v['score_b'] (fight.py, line 175)
FavoursRed(v) == v.score_a >= v.score_b

\* A bump that raises score_a of every verdict that goes to red.
RedBumpAlways(v) == [v EXCEPT !.score_a = @ + 1]

\* if v['score_a'] == v['score_b']: v['score_a'] += 1 (line 176)
RedBump(v) == IF v.score_a = v.score_b THEN [v EXCEPT !.score_a = @ + 1] ELSE v

\* The for loop of run_sudden_death (lines 173-180) from index idx on.
RECURSIVE SuddenDeathLoop(_, _, _)
SuddenDeathLoop(verdicts, idx, acc) ==
    IF idx > Len(verdicts) THEN acc
    ELSE LET v == verdicts[idx]
         IN  SuddenDeathLoop(verdicts, idx + 1,
                 IF FavoursRed(v)
                 THEN [sd_red |-> acc.sd_red + 1, sd_blue |-> acc.sd_blue,
                       sd_verdicts |-> Append(acc.sd_verdicts, RedBump(v)),
                       sd_votes |-> Append(acc.sd_votes, "red")]
                 ELSE [sd_red |-> acc.sd_red, sd_blue |-> acc.sd_blue + 1,
                       sd_verdicts |-> Append(acc.sd_verdicts, v),
                       sd_votes |-> Append(acc.sd_votes, "blue")])

\* return "red" if sd_red > sd_blue else "blue" (line 191)
SuddenDeathWinner(red, blue) == IF red > blue THEN "red" ELSE "blue"

\* run_sudden_death after the gather (lines 172-191), and the decision
\* (api/main.py, line 92).
SuddenDeathTally ==
    /\ fight_pc = "sd_judging"
    /\ AllReturned
    /\ LET acc == SuddenDeathLoop(Gather(task_verdict), 1,
                      [sd_red |-> 0, sd_blue |-> 0, sd_verdicts |-> <<>>, sd_votes |-> <<>>])
       IN  /\ sd_red' = acc.sd_red
           /\ sd_blue' = acc.sd_blue
           /\ sd_verdicts' = acc.sd_verdicts
           /\ sd_votes' = acc.sd_votes
           /\ events' = events \o [i \in 1..Len(acc.sd_votes) |->
                                      Ev("verdict_received", i - 1, acc.sd_votes[i])]
           /\ winner_key' = SuddenDeathWinner(acc.sd_red, acc.sd_blue)
    /\ res' = "Sudden Death"
    /\ fight_pc' = "complete"
    /\ UNCHANGED <<round_num, judges, fighter_script, judge_script, turn_attempt, history,
                   t_a, t_b, task_attempt, task_verdict, rounds, total_red_score,
                   total_blue_score, judge_round_wins, red_wins, blue_wins,
                   aggregate_scores, sd_started>>
    /\ UNCHANGED <<rotVars, callVars, respVars, matchVars, saveVars>>
    /\ UNCHANGED <<prompts, fight_data, cooldowns, saved, resolved>>

\* The document json.dump writes (fight.py, lines 25-36 and 83).
Document ==
    [red_model |-> fighter_a, blue_model |-> fighter_b, judges |-> judges,
     rounds |-> rounds, aggregate_scores |-> aggregate_scores,
     winner |-> fight_data.winner, decision_type |-> fight_data.decision_type]

\* The fight_complete event and save_result (api/main.py, lines 96-102).
FightComplete ==
    /\ fight_pc = "complete"
    /\ events' = Append(events, Ev("fight_complete", 0, winner_key))
    /\ saved' = Append(saved, Document)
    /\ fight_pc' = "done"
    /\ UNCHANGED <<round_num, judges, fighter_script, judge_script, turn_attempt, history,
                   t_a, t_b, task_attempt, task_verdict, rounds, total_red_score,
                   total_blue_score, judge_round_wins, red_wins, blue_wins,
                   aggregate_scores, sd_started, sd_red, sd_blue, winner_key, res>>
    /\ UNCHANGED <<rotVars, callVars, respVars, matchVars, saveVars>>
    /\ UNCHANGED <<prompts, sd_verdicts, sd_votes, fight_data, cooldowns, resolved>>

\* The consumer goes away: the next send on the websocket raises
\* WebSocketDisconnect, which ends websocket_endpoint (api/main.py, lines
\* 56 and 104-105).  Every position of the flow up to the fight_complete
\* event has a send ahead of it.
Disconnect ==
    /\ fight_pc \notin {"idle", "done", "aborted"}
    /\ fight_pc' = "aborted"
    /\ UNCHANGED <<round_num, judges, fighter_script, judge_script, turn_attempt, history,
                   t_a, t_b, task_attempt, task_verdict, rounds, total_red_score,
                   total_blue_score, judge_round_wins, red_wins, blue_wins,
                   aggregate_scores, sd_started, sd_red, sd_blue, winner_key, res>>
    /\ UNCHANGED <<rotVars, callVars, respVars, matchVars, saveVars>>
    /\ UNCHANGED <<prompts, sd_verdicts, sd_votes, fight_data, cooldowns, saved, resolved, events>>

\* ------------------------------------------------------------------------
\* The start of websocket_endpoint (api/main.py, lines 35-75)
\* ------------------------------------------------------------------------

\* The lists load_models returns: unique identifiers (core/models.py, line 27).
ModelLists == {[i \in 1..k |-> ModelId(i)] : k \in 0..MaxModels}

\* What get_model_lab gives for the identifiers of a list: one lab for all
\* of them, two labs in turn, or one identifier of a lab of its own.
LabsOf(models) ==
    {[m \in Range(models) |-> Labs[1]],
     [m \in Range(models) |-> Labs[(m[2] % Len(Labs)) + 1]],
     [m \in Range(models) |-> IF m[2] = 1 THEN Labs[2] ELSE Labs[1]]}

\* A connection has been accepted; load_models has returned all_models.
MatchInit ==
    /\ match_pc = "load"
    /\ all_models \in ModelLists
    /\ lab \in LabsOf(all_models)
    /\ fighter_a = NoModel
    /\ fighter_b = NoModel
    /\ events = <<>>

\* A pool test that lets a list of four through.
EnoughModelsOffByOne(models) == Len(models) >= MinPool - 1

\* The negation of len(all_models) < 5 (line 38).
EnoughModels(models) == Len(models) >= MinPool

\* Lines 37-40: the pool test; a short pool is reported and the flow returns.
LoadModels ==
    /\ match_pc = "load"
    /\ IF EnoughModels(all_models)
       THEN /\ match_pc' = "pick_a"
            /\ UNCHANGED events
       ELSE /\ match_pc' = "stopped"
            /\ events' = Append(events, Ev("error", 0, ""))
    /\ UNCHANGED <<all_models, lab, fighter_a, fighter_b>>
    /\ UNCHANGED <<rotVars, callVars, respVars, fightVars, saveVars>>

\* Line 43: fighter_a = random.choice(all_models).
PickA ==
    /\ match_pc = "pick_a"
    /\ fighter_a' \in Range(all_models)
    /\ match_pc' = "pick_b"
    /\ UNCHANGED <<all_models, lab, fighter_b, events>>
    /\ UNCHANGED <<rotVars, callVars, respVars, fightVars, saveVars>>

\* A selection of the opponent that does not look at the labs.
remaining_for_b_any_lab(models, a) == {m \in Range(models) : m # a}

\* remaining_for_b (lines 45-46).
remaining_for_b(models, a) ==
    LET other_lab == {m \in Range(models) : lab[m] # lab[a] /\ m # a}
    IN  IF other_lab = {} THEN {m \in Range(models) : m # a} ELSE other_lab

\* Line 47: fighter_b = random.choice(remaining_for_b).
PickB ==
    /\ match_pc = "pick_b"
    /\ fighter_b' \in remaining_for_b(all_models, fighter_a)
    /\ match_pc' = "rotator"
    /\ UNCHANGED <<all_models, lab, fighter_a, events>>
    /\ UNCHANGED <<rotVars, callVars, respVars, fightVars, saveVars>>

\* Lines 49-50: a JudgeRotation of its own for this connection, and the
\* call of get_judges up to its fill pass.
MatchGetJudges ==
    /\ match_pc = "rotator"
    /\ \E p \in Shuffles(Range(all_models)) :
         /\ pool' = p
         /\ rot_judges' \in DiversityOutcomes(p, {fighter_a, fighter_b})
    /\ rotation_index' = 0
    /\ rot_fighters' = {fighter_a, fighter_b}
    /\ attempts' = 0
    /\ rot_pc' = "fill"
    /\ match_pc' = "judges"
    /\ UNCHANGED <<all_models, lab, fighter_a, fighter_b, events>>
    /\ UNCHANGED <<callVars, respVars, fightVars, saveVars>>

\* Lines 50-75: get_judges has returned; the FightManager is built and
\* the fight_init event is sent.
CreateFight ==
    /\ match_pc = "judges"
    /\ rot_pc = "returned"
    /\ judges' = rot_judges
    /\ judge_round_wins' = [j \in Range(rot_judges) |-> [red |-> 0, blue |-> 0]]
    /\ round_num' = 1
    /\ fight_pc' = "turn_a"
    /\ events' = Append(events, Ev("fight_init", 0, ""))
    /\ match_pc' = "fighting"
    /\ UNCHANGED <<fighter_script, judge_script, turn_attempt, history, t_a, t_b,
                   task_attempt, task_verdict, rounds, total_red_score, total_blue_score,
                   red_wins, blue_wins, aggregate_scores, sd_started, sd_red, sd_blue,
                   winner_key, res, prompts, sd_verdicts, sd_votes, fight_data, cooldowns, saved,
                   resolved>>
    /\ UNCHANGED <<all_models, lab, fighter_a, fighter_b>>
    /\ UNCHANGED <<rotVars, callVars, respVars, saveVars>>

\* ------------------------------------------------------------------------
\* Fight ids and result files (core/fight.py, lines 23 and 78-83)
\* ------------------------------------------------------------------------

\* The fights one process may serve, and the marker of a fight not yet built.
Fights == 1..MaxFights

NotYet == -1

\* No fight has been built and the results directory is empty.
SaveIdle ==
    /\ clock = 0
    /\ created = [f \in Fights |-> NotYet]
    /\ fight_ids = [f \in Fights |-> NotYet]
    /\ written = {}
    /\ files = [t \in 0..MaxClock |-> 0]

\* datetime.now().strftime("%Y%m%d_%H%M%S") at second t: the id names the
\* second and nothing finer.
FightId(t) == t

\* A second of the wall clock passes.
Tick ==
    /\ clock < MaxClock
    /\ clock' = clock + 1
    /\ UNCHANGED <<created, fight_ids, written, files>>
    /\ UNCHANGED <<rotVars, callVars, respVars, fightVars, matchVars, events>>

\* A connection builds the FightManager of fight f (fight.py, line 23).
\* Connections are served concurrently: any number of them can build their
\* manager within one second.
NewFight(f) ==
    /\ created[f] = NotYet
    /\ \A g \in 1..(f - 1) : created[g] # NotYet
    /\ created' = [created EXCEPT ![f] = clock]
    /\ fight_ids' = [fight_ids EXCEPT ![f] = FightId(clock)]
    /\ UNCHANGED <<clock, written, files>>
    /\ UNCHANGED <<rotVars, callVars, respVars, fightVars, matchVars, events>>

\* save_result of fight f (lines 78-83): open(filename, "w") replaces what
\* the file held.  A fight waits through its intermissions, so it is saved
\* in a later second than the one it was built in.
SaveResult(f) ==
    /\ created[f] # NotYet
    /\ f \notin written
    /\ clock > created[f]
    /\ files' = [files EXCEPT ![fight_ids[f]] = f]
    /\ written' = written \cup {f}
    /\ UNCHANGED <<clock, created, fight_ids>>
    /\ UNCHANGED <<rotVars, callVars, respVars, fightVars, matchVars, events>>

\* ------------------------------------------------------------------------
\* The command-line fight loop (engine.py, run_fight_loop)
\* ------------------------------------------------------------------------

\* engine.get_fighter_response (lines 135-144): the whole blocking call.
CliFighterResponse(who, n) ==
    LET raws == FighterBehaviour(fighter_script, who, n)
        first == FighterAttempt(0, raws[1])
    IN  IF first.done THEN first.text ELSE FighterAttempt(FighterRetries, raws[2]).text

\* Line 133: the verdict of the outer except clause.
CliErrorVerdict(j) == Verdict(j, DefaultScore, DefaultScore, "Timeout/Error")

\* engine.get_single_judge_verdict (lines 102-133): one request, no retry and
\* no tie-breaker.  Only json.JSONDecodeError leads to the regexes; a failed
\* request, a content of None, a decoded non-object and a score that int()
\* rejects all end in the outer except clause.
CliVerdict(j, c) ==
    IF c.kind \in {"raise", "none", "nonobj"} THEN CliErrorVerdict(j)
    ELSE IF c.kind = "json"
         THEN IF c.a.tag = "bad" \/ c.b.tag = "bad" THEN CliErrorVerdict(j)
              ELSE Verdict(j, IntOf(c.a), IntOf(c.b), "reason")
         ELSE Verdict(j, RegexScore(c, "score_a"), RegexScore(c, "score_b"), "reason")

\* The judge the for loop over enumerate(judges) calls next.
CliNextJudge == CHOOSE i \in JudgeIdx :
    task_verdict[i] = NoVerdict /\ \A k \in 1..(i - 1) : task_verdict[k] # NoVerdict

\* Lines 179-181: the state of a fight before round 1.
CliInit ==
    /\ fight_pc = "cli_round"
    /\ round_num = 1
    /\ judges = FightJudges
    /\ fighter_script \in FighterScripts
    /\ judge_script \in [JudgeIdx -> JudgeScripts] \cup {PanelDown}
    /\ turn_attempt = 0
    /\ history = <<>>
    /\ t_a = <<>>
    /\ t_b = <<>>
    /\ task_attempt = NoTasks
    /\ task_verdict = NoVerdicts
    /\ rounds = <<>>
    /\ total_red_score = 0
    /\ total_blue_score = 0
    /\ judge_round_wins = [j \in Range(FightJudges) |-> [red |-> 0, blue |-> 0]]
    /\ red_wins = -1
    /\ blue_wins = -1
    /\ aggregate_scores = [red |-> 0, blue |-> 0]
    /\ sd_started = FALSE
    /\ sd_red = 0
    /\ sd_blue = 0
    /\ winner_key = "none"
    /\ res = "none"
    /\ prompts = <<>>
    /\ sd_verdicts = <<>>
    /\ sd_votes = <<>>
    /\ fight_data = [winner |-> "None", decision_type |-> "None"]
    /\ saved = <<>>
    /\ resolved = <<>>
    /\ cooldowns = 0
    /\ match_pc = "fighting"
    /\ all_models = [i \in 1..5 |-> ModelId(i)]
    /\ lab = [m \in {ModelId(i) : i \in 1..5} |-> Labs[((m[2] - 1) % Len(Labs)) + 1]]
    /\ fighter_a = ModelId(1)
    /\ fighter_b = ModelId(2)
    /\ events = <<>>

\* Lines 185-201: the two fighter turns of a round, one blocking call after
\* the other, and the reset of round_verdicts.
CliRound ==
    /\ fight_pc = "cli_round"
    /\ LET text_a == CliFighterResponse("red", round_num)
           text_b == CliFighterResponse("blue", round_num)
       IN  /\ t_a' = text_a
           /\ t_b' = text_b
           /\ history' = history \o <<[content |-> text_a, fighter |-> "red"],
                                      [content |-> text_b, fighter |-> "blue"]>>
           /\ prompts' = prompts \o <<Prompt(round_num, "red", p_a(round_num, history)),
                                      Prompt(round_num, "blue", p_b(round_num, text_a))>>
    /\ task_verdict' = NoVerdicts
    /\ fight_pc' = "cli_judging"
    /\ UNCHANGED <<round_num, rounds, total_red_score, total_blue_score, judge_round_wins,
                   red_wins, blue_wins, aggregate_scores, sd_started, sd_red, sd_blue,
                   winner_key, res, sd_votes, fight_data, saved, cooldowns>>
    /\ UNCHANGED <<judges, fighter_script, judge_script, turn_attempt, task_attempt,
                   sd_verdicts, resolved, events>>
    /\ UNCHANGED <<rotVars, callVars, respVars, matchVars, saveVars>>

\* Lines 204-216: one pass of the for loop over the judges.  The blocking
\* request of judge j returns, and its verdict is added to the totals and to
\* the tallies before the request of the next judge is made.
CliJudge ==
    /\ fight_pc = "cli_judging"
    /\ \E i \in JudgeIdx : task_verdict[i] = NoVerdict
    /\ LET i == CliNextJudge
           j == judges[i]
           v == CliVerdict(j, JudgeBehaviour(judge_script[i], round_num)[1])
           red == IF v.score_a > v.score_b THEN 1 ELSE 0
           blue == IF v.score_b > v.score_a THEN 1 ELSE 0
       IN  /\ total_red_score' = total_red_score + v.score_a
           /\ total_blue_score' = total_blue_score + v.score_b
           /\ judge_round_wins' = [judge_round_wins EXCEPT ![j] =
                                      [red |-> @.red + red, blue |-> @.blue + blue]]
           /\ task_verdict' = [task_verdict EXCEPT ![i] = v]
    /\ UNCHANGED <<fight_pc, round_num, history, t_a, t_b, rounds, red_wins, blue_wins,
                   aggregate_scores, sd_started, sd_red, sd_blue, winner_key, res, prompts,
                   sd_votes, fight_data, saved, cooldowns>>
    /\ UNCHANGED <<judges, fighter_script, judge_script, turn_attempt, task_attempt,
                   sd_verdicts, resolved, events>>
    /\ UNCHANGED <<rotVars, callVars, respVars, matchVars, saveVars>>

\* Lines 218-223: the round record, and the wait before the next round.
CliRoundEnd ==
    /\ fight_pc = "cli_judging"
    /\ AllReturned
    /\ rounds' = Append(rounds, [round |-> round_num, red_text |-> t_a, blue_text |-> t_b,
                                 verdicts |-> Gather(task_verdict)])
    /\ IF round_num < LastRound
       THEN /\ cooldowns' = cooldowns + 1
            /\ round_num' = round_num + 1
            /\ fight_pc' = "cli_round"
       ELSE /\ fight_pc' = "cli_final"
            /\ UNCHANGED <<cooldowns, round_num>>
    /\ UNCHANGED <<history, t_a, t_b, task_verdict, total_red_score, total_blue_score,
                   judge_round_wins, red_wins, blue_wins, aggregate_scores, sd_started,
                   sd_red, sd_blue, winner_key, res, prompts, sd_votes, fight_data, saved>>
    /\ UNCHANGED <<judges, fighter_script, judge_script, turn_attempt, task_attempt,
                   sd_verdicts, resolved, events>>
    /\ UNCHANGED <<rotVars, callVars, respVars, matchVars, saveVars>>

\* Lines 227-233: judge_winners, one pick per judge from its scores summed
\* over the logged rounds.
CliJudgeWinners(js, rs) ==
    [k \in 1..Len(js) |->
        LET r_sum == SumScores(rs, IndexOf(js, js[k]), "score_a")
            b_sum == SumScores(rs, IndexOf(js, js[k]), "score_b")
        IN  IF r_sum > b_sum THEN "red"
            ELSE IF b_sum > r_sum THEN "blue"
            ELSE "draw"]

\* Line 236: red_wins, blue_wins.
CliWins(js, rs) ==
    <<Count(CliJudgeWinners(js, rs), "red"), Count(CliJudgeWinners(js, rs), "blue")>>

\* A sudden-death vote of the command-line loop that goes to red only on a
\* strictly higher score.
CliFavoursRedStrict(v) == v.score_a > v.score_b

\* if v['score_a'] >= v['score_b'] (engine.py, line 248)
CliFavoursRed(v) == v.score_a >= v.score_b

\* winner = "red" if sd_red > sd_blue else "blue" (engine.py, line 255)
CliSuddenDeathWinner(red, blue) == IF red > blue THEN "red" ELSE "blue"

\* The decision of a fight that needs no sudden death (engine.py, line 259).
CliDecision(rw, bw) == IF rw = 3 \/ bw = 3 THEN "Unanimous Decision" ELSE "Split Decision"

\* Lines 226-244 and 257-261: the picks of the judges, then either the
\* decision or the two sudden-death fighter calls.
CliFinal ==
    /\ fight_pc = "cli_final"
    /\ aggregate_scores' = [red |-> total_red_score, blue |-> total_blue_score]
    /\ LET w == CliWins(judges, rounds)
       IN  /\ red_wins' = w[1]
           /\ blue_wins' = w[2]
           /\ IF w[1] = w[2]
              THEN /\ sd_started' = TRUE
                   /\ t_a' = CliFighterResponse("red", LastRound + 1)
                   /\ t_b' = CliFighterResponse("blue", LastRound + 1)
                   /\ prompts' = prompts \o <<Prompt(LastRound + 1, "red", sd_prompt),
                                              Prompt(LastRound + 1, "blue", sd_prompt)>>
                   /\ task_verdict' = NoVerdicts
                   /\ fight_pc' = "cli_sd_judging"
                   /\ UNCHANGED <<winner_key, res, fight_data>>
              ELSE /\ winner_key' = IF w[1] > w[2] THEN "red" ELSE "blue"
                   /\ res' = CliDecision(w[1], w[2])
                   /\ fight_data' = [winner |-> IF w[1] > w[2] THEN "red" ELSE "blue",
                                     decision_type |-> CliDecision(w[1], w[2])]
                   /\ fight_pc' = "cli_save"
                   /\ UNCHANGED <<sd_started, t_a, t_b, prompts, task_verdict>>
    /\ UNCHANGED <<round_num, history, rounds, total_red_score, total_blue_score,
                   judge_round_wins, sd_red, sd_blue, sd_votes, saved, cooldowns>>
    /\ UNCHANGED <<judges, fighter_script, judge_script, turn_attempt, task_attempt,
                   sd_verdicts, resolved, events>>
    /\ UNCHANGED <<rotVars, callVars, respVars, matchVars, saveVars>>

\* Lines 246-254: one pass of the sudden-death loop over the judges.  The
\* assignment winner_col = "blue" of line 253 stands outside the else branch.
CliSuddenDeathJudge ==
    /\ fight_pc = "cli_sd_judging"
    /\ \E i \in JudgeIdx : task_verdict[i] = NoVerdict
    /\ LET i == CliNextJudge
           v == CliVerdict(judges[i], JudgeBehaviour(judge_script[i], LastRound + 1)[1])
       IN  /\ sd_red' = IF CliFavoursRed(v) THEN sd_red + 1 ELSE sd_red
           /\ sd_blue' = IF CliFavoursRed(v) THEN sd_blue ELSE sd_blue + 1
           /\ task_verdict' = [task_verdict EXCEPT ![i] = IF CliFavoursRed(v) THEN RedBump(v) ELSE v]
    /\ sd_votes' = Append(sd_votes, "blue")
    /\ UNCHANGED <<fight_pc, round_num, history, t_a, t_b, rounds, total_red_score,
                   total_blue_score, judge_round_wins, red_wins, blue_wins,
                   aggregate_scores, sd_started, winner_key, res, prompts, fight_data,
                   saved, cooldowns>>
    /\ UNCHANGED <<judges, fighter_script, judge_script, turn_attempt, task_attempt,
                   sd_verdicts, resolved, events>>
    /\ UNCHANGED <<rotVars, callVars, respVars, matchVars, saveVars>>

\* Lines 255-256 and 261: the sudden-death winner.
CliSuddenDeathEnd ==
    /\ fight_pc = "cli_sd_judging"
    /\ AllReturned
    /\ winner_key' = CliSuddenDeathWinner(sd_red, sd_blue)
    /\ res' = "Sudden Death Victory"
    /\ fight_data' = [winner |-> CliSuddenDeathWinner(sd_red, sd_blue),
                      decision_type |-> "Sudden Death Victory"]
    /\ fight_pc' = "cli_save"
    /\ UNCHANGED <<round_num, history, t_a, t_b, task_verdict, rounds, total_red_score,
                   total_blue_score, judge_round_wins, red_wins, blue_wins,
                   aggregate_scores, sd_started, sd_red, sd_blue, prompts, sd_votes, saved,
                   cooldowns>>
    /\ UNCHANGED <<judges, fighter_script, judge_script, turn_attempt, task_attempt,
                   sd_verdicts, resolved, events>>
    /\ UNCHANGED <<rotVars, callVars, respVars, matchVars, saveVars>>

\* Line 267: save_fight_result.
CliSave ==
    /\ fight_pc = "cli_save"
    /\ saved' = Append(saved, Document)
    /\ fight_pc' = "cli_done"
    /\ UNCHANGED <<round_num, history, t_a, t_b, task_verdict, rounds, total_red_score,
                   total_blue_score, judge_round_wins, red_wins, blue_wins,
                   aggregate_scores, sd_started, sd_red, sd_blue, winner_key, res, prompts,
                   sd_votes, fight_data, cooldowns>>
    /\ UNCHANGED <<judges, fighter_script, judge_script, turn_attempt, task_attempt,
                   sd_verdicts, resolved, events>>
    /\ UNCHANGED <<rotVars, callVars, respVars, matchVars, saveVars>>

\* ------------------------------------------------------------------------
\* The outcome of a fight from its verdict scores, in both flows
\* (api/main.py, lines 87-94 with fight.py, lines 172-204; engine.py, lines
\* 226-261)
\* ------------------------------------------------------------------------

\* How one judge scores the five rounds: the pairs (score_a, score_b).
ScoreProfiles == {"red", "blue", "level", "redpoints", "bluepoints"}

ProfileScores(profile, n) ==
    CASE profile = "red" -> <<7, 5>>
      [] profile = "blue" -> <<5, 7>>
      [] profile = "level" ->
            IF n = LastRound THEN <<5, 5>> ELSE IF n % 2 = 1 THEN <<7, 5>> ELSE <<5, 7>>
      [] profile = "redpoints" -> IF n <= 2 THEN <<9, 2>> ELSE <<5, 6>>
      [] OTHER -> IF n <= 2 THEN <<2, 9>> ELSE <<6, 5>>

\* The round log of a fight whose judges score by the given profiles.
ProfileLog(profiles) ==
    [n \in 1..LastRound |->
        [round |-> n, red_text |-> <<>>, blue_text |-> <<>>,
         verdicts |-> [i \in JudgeIdx |->
             Verdict(FightJudges[i], ProfileScores(profiles[i], n)[1],
                     ProfileScores(profiles[i], n)[2], "reason")]]]

\* The score pairs a sudden-death verdict can carry.
SdPairs == {<<7, 5>>, <<5, 7>>, <<5, 5>>, <<6, 6>>}

\* A finished round log and the sudden-death verdicts the judges would give;
\* neither flow has decided yet.
OutcomeInit ==
    /\ fight_pc = "outcome"
    /\ round_num = LastRound
    /\ judges = FightJudges
    /\ fighter_script = "speak"
    /\ judge_script = <<>>
    /\ turn_attempt = 0
    /\ history = <<>>
    /\ t_a = <<>>
    /\ t_b = <<>>
    /\ task_attempt = NoTasks
    /\ \E pairs \in [JudgeIdx -> SdPairs] :
          task_verdict = [i \in JudgeIdx |->
                             Verdict(FightJudges[i], pairs[i][1], pairs[i][2], "reason")]
    /\ \E profiles \in [JudgeIdx -> ScoreProfiles] : rounds = ProfileLog(profiles)
    /\ total_red_score = 0
    /\ total_blue_score = 0
    /\ judge_round_wins = <<>>
    /\ red_wins = -1
    /\ blue_wins = -1
    /\ aggregate_scores = [red |-> 0, blue |-> 0]
    /\ sd_started = FALSE
    /\ sd_red = 0
    /\ sd_blue = 0
    /\ winner_key = "none"
    /\ res = "none"
    /\ prompts = <<>>
    /\ sd_verdicts = <<>>
    /\ sd_votes = <<>>
    /\ fight_data = [winner |-> "None", decision_type |-> "None"]
    /\ saved = <<>>
    /\ resolved = <<>>
    /\ cooldowns = 0
    /\ events = <<>>

\* Step 7 of websocket_endpoint on these scores (api/main.py, lines 87-94):
\* resolve_winner, then the sudden-death loop of the FightManager or the
\* decision.
ApiDecide ==
    /\ fight_pc = "outcome"
    /\ res = "none"
    /\ LET w == resolve_winner(judges, rounds)
           acc == SuddenDeathLoop(Gather(task_verdict), 1,
                      [sd_red |-> 0, sd_blue |-> 0, sd_verdicts |-> <<>>, sd_votes |-> <<>>])
       IN  /\ red_wins' = w[1]
           /\ blue_wins' = w[2]
           /\ IF NeedsSuddenDeath(w[1], w[2])
              THEN /\ sd_started' = TRUE
                   /\ winner_key' = SuddenDeathWinner(acc.sd_red, acc.sd_blue)
                   /\ res' = "Sudden Death"
              ELSE /\ winner_key' = IF w[1] > w[2] THEN "red" ELSE "blue"
                   /\ res' = Decision(w[1], w[2])
                   /\ UNCHANGED sd_started
    /\ UNCHANGED <<fight_pc, round_num, judges, fighter_script, judge_script, turn_attempt,
                   history, t_a, t_b, task_attempt, task_verdict, rounds, total_red_score,
                   total_blue_score, judge_round_wins, aggregate_scores, sd_red, sd_blue,
                   prompts, sd_verdicts, sd_votes, fight_data, saved, resolved, cooldowns>>
    /\ UNCHANGED <<rotVars, callVars, respVars, matchVars, saveVars, events>>

\* The sudden-death loop of the command-line flow (engine.py, lines 245-254)
\* from index idx on: the pair (sd_red, sd_blue).
RECURSIVE CliSuddenDeathLoop(_, _, _)
CliSuddenDeathLoop(verdicts, idx, acc) ==
    IF idx > Len(verdicts) THEN acc
    ELSE CliSuddenDeathLoop(verdicts, idx + 1,
             IF CliFavoursRed(verdicts[idx]) THEN <<acc[1] + 1, acc[2]>>
             ELSE <<acc[1], acc[2] + 1>>)

\* The final result of run_fight_loop on these scores (engine.py, lines
\* 226-261).
CliDecide ==
    /\ fight_pc = "outcome"
    /\ fight_data.decision_type = "None"
    /\ LET w == CliWins(judges, rounds)
           sd == CliSuddenDeathLoop(Gather(task_verdict), 1, <<0, 0>>)
       IN  fight_data' =
               IF w[1] = w[2]
               THEN [winner |-> CliSuddenDeathWinner(sd[1], sd[2]),
                     decision_type |-> "Sudden Death Victory"]
               ELSE [winner |-> IF w[1] > w[2] THEN "red" ELSE "blue",
                     decision_type |-> CliDecision(w[1], w[2])]
    /\ UNCHANGED <<fight_pc, round_num, judges, fighter_script, judge_script, turn_attempt,
                   history, t_a, t_b, task_attempt, task_verdict, rounds, total_red_score,
                   total_blue_score, judge_round_wins, red_wins, blue_wins, aggregate_scores,
                   sd_started, sd_red, sd_blue, winner_key, res, prompts, sd_verdicts,
                   sd_votes, saved, resolved, cooldowns>>
    /\ UNCHANGED <<rotVars, callVars, respVars, matchVars, saveVars, events>>

\* ------------------------------------------------------------------------
\* Specifications
\* ------------------------------------------------------------------------

\* A session of get_judges calls on one JudgeRotation.
InitRotation == RotationInit /\ CallIdle /\ RespIdle /\ FightIdle /\ MatchIdle /\ SaveIdle

NextRotation == GetJudgesStart \/ FillStep \/ GetJudgesReturn \/ GetJudgesDone

SpecRotation == InitRotation /\ [][NextRotation]_vars

\* One call of get_single_judge_verdict.
InitJudgeCall == RotationIdle /\ CallInit /\ RespIdle /\ FightIdle /\ MatchIdle /\ SaveIdle

NextJudgeCall == JudgeAttempt

SpecJudgeCall == InitJudgeCall /\ [][NextJudgeCall]_vars

\* One call of get_fighter_response.
InitFighterCall == RotationIdle /\ CallIdle /\ RespInit /\ FightIdle /\ MatchIdle /\ SaveIdle

NextFighterCall == FighterCallAttempt

SpecFighterCall == InitFighterCall /\ [][NextFighterCall]_vars

\* One fight, from the start of round 1 to fight_complete.
InitFight == RotationIdle /\ CallIdle /\ RespIdle /\ FightInit /\ SaveIdle

NextFight ==
    \/ TurnA
    \/ TurnB
    \/ \E i \in JudgeIdx : JudgeTask(i)
    \/ ScoreRound
    \/ Intermission
    \/ Finalize
    \/ SuddenDeathTurnA
    \/ SuddenDeathTurnB
    \/ SuddenDeathTally
    \/ FightComplete
    \/ Disconnect

SpecFight == InitFight /\ [][NextFight]_vars

\* One connection, from the pool test to the fight_init event.
InitMatchup == RotationIdle /\ CallIdle /\ RespIdle /\ FightIdle /\ MatchInit /\ SaveIdle

NextMatchup ==
    \/ LoadModels
    \/ PickA
    \/ PickB
    \/ MatchGetJudges
    \/ FillStep
    \/ GetJudgesReturn
    \/ CreateFight

SpecMatchup == InitMatchup /\ [][NextMatchup]_vars

\* The steps of the fight itself: every step of NextFight but the consumer's
\* Disconnect.
FightStep ==
    \/ TurnA
    \/ TurnB
    \/ \E i \in JudgeIdx : JudgeTask(i)
    \/ ScoreRound
    \/ Intermission
    \/ Finalize
    \/ SuddenDeathTurnA
    \/ SuddenDeathTurnB
    \/ SuddenDeathTally
    \/ FightComplete

\* The panels of the fights whose whole course is followed: a panel that
\* never answers, a unanimous one, one whose judges need their retries, and
\* two that end in sudden death and in a split decision.
LivePanels ==
    {PanelDown, <<"red", "red", "red">>, <<"mixed", "mixed", "mixed">>,
     <<"draw", "blue", "red">>, <<"red", "blue", "blue">>}

InitFightLive == InitFight /\ judge_script \in LivePanels

\* One fight whose flow keeps running: every model call returns or fails
\* (each carries a timeout) and the event loop resumes the coroutine, so a
\* step of the fight that stays possible is taken.  Nothing obliges the
\* consumer to disconnect or to stay.
SpecFightLive == InitFightLive /\ [][NextFight]_vars /\ WF_vars(FightStep)

\* The five rounds of a fight, followed by calls of resolve_winner.
InitResolve == RotationIdle /\ CallIdle /\ RespIdle /\ FightInit /\ SaveIdle

NextResolve ==
    \/ TurnA
    \/ TurnB
    \/ \E i \in JudgeIdx : JudgeTask(i)
    \/ ScoreRound
    \/ Intermission
    \/ ResolveWinnerCall

SpecResolve == InitResolve /\ [][NextResolve]_vars

\* One fight of the command-line loop.
InitCli == RotationIdle /\ CallIdle /\ RespIdle /\ CliInit /\ SaveIdle

NextCli ==
    \/ CliRound
    \/ CliJudge
    \/ CliRoundEnd
    \/ CliFinal
    \/ CliSuddenDeathJudge
    \/ CliSuddenDeathEnd
    \/ CliSave

SpecCli == InitCli /\ [][NextCli]_vars


\* The fights of one server process and their result files.
InitSaves == RotationIdle /\ CallIdle /\ RespIdle /\ FightIdle /\ MatchIdle /\ SaveIdle

NextSaves ==
    \/ Tick
    \/ \E f \in Fights : NewFight(f)
    \/ \E f \in Fights : SaveResult(f)

SpecSaves == InitSaves /\ [][NextSaves]_vars

\* Both flows decide the same finished fight.
InitOutcome == RotationIdle /\ CallIdle /\ RespIdle /\ OutcomeInit /\ MatchIdle /\ SaveIdle

NextOutcome == ApiDecide \/ CliDecide

SpecOutcome == InitOutcome /\ [][NextOutcome]_vars

\* ------------------------------------------------------------------------
\* Properties
\* ------------------------------------------------------------------------

\* The verdicts of the fight log, as (round, judge index) pairs.
Logged == {<<n, i>> \in (1..Len(rounds)) \X JudgeIdx : i <= Len(rounds[n].verdicts)}

LoggedVerdict(e) == rounds[e[1]].verdicts[e[2]]

\* The sum of one score of judge i over the first n rounds of the log.
RECURSIVE LogSum(_, _, _)
LogSum(i, key, n) ==
    IF n = 0 THEN 0 ELSE rounds[n].verdicts[i][key] + LogSum(i, key, n - 1)

\* The judges whose summed scores favour red, and those favouring blue.
RedPicks ==
    Cardinality({i \in JudgeIdx :
        LogSum(i, "score_a", Len(rounds)) > LogSum(i, "score_b", Len(rounds))})

BluePicks ==
    Cardinality({i \in JudgeIdx :
        LogSum(i, "score_b", Len(rounds)) > LogSum(i, "score_a", Len(rounds))})

\* C1: every round record of the fight log has as many verdicts as the fight
\* has judges, and the i-th verdict is the one of the i-th judge, whatever
\* order the judge tasks returned in and whichever of them failed.
C1_VerdictsAligned ==
    \A n \in 1..Len(rounds) :
        /\ Len(rounds[n].verdicts) = Len(judges)
        /\ \A i \in 1..Len(judges) : rounds[n].verdicts[i].judge = judges[i]

\* A finished fight whose log holds the verdict of a judge all of whose
\* attempts failed, next to verdicts of judges that answered.
C1_Witness ==
    /\ fight_pc = "complete"
    /\ Len(rounds) = LastRound
    /\ \E e \in Logged : LoggedVerdict(e).reason = "Error:"
    /\ \E e \in Logged : LoggedVerdict(e).reason = "reason"

\* C2: for a pool of at least 5 identifiers, whatever the fighters and the
\* rotation_index left by earlier calls, the list get_judges returns holds
\* no fighter and no identifier twice.
C2_JudgesDisjointAndUnique ==
    (rot_pc = "returned" /\ Len(pool) >= 5) =>
        /\ Range(rot_judges) \cap rot_fighters = {}
        /\ \A i, k \in 1..Len(rot_judges) : i # k => rot_judges[i] # rot_judges[k]

\* A call on a pool of 5 that started from a rotation_index an earlier call
\* left, needed the fill pass, and returned 3 judges.
C2_Witness ==
    /\ rot_pc = "returned"
    /\ Len(pool) >= 5
    /\ rotation_index - attempts > 0
    /\ attempts > 0
    /\ Len(rot_judges) = 3

\* The identifiers of the pool that are no fighters.
EligibleJudges == Range(pool) \ rot_fighters

\* C3: get_judges returns exactly 3 judges whenever the pool holds at least
\* 3 identifiers that are no fighters, and fewer than 3 only when fewer than
\* 3 such identifiers exist.
C3_ThreeJudgesWhenPossible ==
    rot_pc = "returned" =>
        /\ Len(rot_judges) <= 3
        /\ Cardinality(EligibleJudges) >= 3 => Len(rot_judges) = 3
        /\ Len(rot_judges) < 3 => Cardinality(EligibleJudges) < 3

\* A call that found its third judge only in the fill pass, after stepping
\* over identifiers it could not take.
C3_Witness ==
    /\ rot_pc = "returned"
    /\ Cardinality(EligibleJudges) >= 3
    /\ attempts >= 2
    /\ Len(rot_judges) = 3

\* C4 as claimed: no verdict recorded in the fight log has score_a = score_b.
C4_NoDrawnVerdict ==
    \A e \in Logged : LoggedVerdict(e).score_a # LoggedVerdict(e).score_b

\* C4 as amended: a verdict a judge task returned, and so a verdict of the
\* fight log, has equal scores only if it is the neutral 5/5 verdict with
\* the "Error:" reason that is returned when all attempts failed.
C4_OnlyErrorVerdictIsDrawn ==
    /\ \A e \in Logged :
          LoggedVerdict(e).score_a = LoggedVerdict(e).score_b =>
              LoggedVerdict(e) = ErrorVerdict(judges[e[2]])
    /\ \A i \in 1..Len(task_verdict) :
          (task_verdict[i] # NoVerdict /\ task_verdict[i].score_a = task_verdict[i].score_b) =>
              task_verdict[i] = ErrorVerdict(judges[i])

\* The log of a judge that answered 6/6 in round 1 (recorded with unequal
\* scores) and failed in round 4 (recorded as the neutral 5/5).
C4_Witness ==
    \E i \in 1..Len(judge_script) :
        /\ judge_script[i] = "mixed"
        /\ Len(rounds) >= 4
        /\ rounds[1].verdicts[i].score_a # rounds[1].verdicts[i].score_b
        /\ rounds[4].verdicts[i].score_a = rounds[4].verdicts[i].score_b

\* The scores a content of a plainly parseable shape carries: both entries
\* numbers or absent, in a JSON object or a Python dict.
PlainScores(c) == <<IntOf(c.a), IntOf(c.b)>>

IsPlain(c) == c.kind \in {"json", "pydict"} /\ c.a.tag # "bad" /\ c.b.tag # "bad"

ReturnedScores == <<call_verdict.score_a, call_verdict.score_b>>

\* C5: when an attempt parses scores by the JSON, literal or regex path and
\* they are equal to s, the verdict is (s+1, s) or (s, s+1); when they
\* differ they are returned unchanged.  A 7/7 JSON response leaves as 8/7 or 7/8.
C5_TieBrokenByOne ==
    (call_pc = "returned" /\ call_path \in {"json", "literal", "regex"}) =>
        LET parsed == ParseChain(call_content).p
            s == parsed.a
        IN  /\ parsed.st = "ok"
            /\ IsPlain(call_content) => <<parsed.a, parsed.b>> = PlainScores(call_content)
            /\ parsed.a = parsed.b => ReturnedScores \in {<<s + 1, s>>, <<s, s + 1>>}
            /\ parsed.a # parsed.b => ReturnedScores = <<parsed.a, parsed.b>>
            /\ call_content = Json(7, 7) => ReturnedScores \in {<<8, 7>>, <<7, 8>>}
            /\ call_verdict.score_a # call_verdict.score_b

\* The 7/7 JSON response returned as 7/8.
C5_Witness ==
    /\ call_pc = "returned"
    /\ call_path = "json"
    /\ call_content = Json(7, 7)
    /\ ReturnedScores = <<7, 8>>

\* C6: get_single_judge_verdict makes at most retries+1 attempts and always
\* returns a verdict of its judge; when the last of them fails too it
\* returns 5/5 with a reason that starts with "Error:".
C6_ErrorVerdictOnExhaustion ==
    /\ call_attempt <= Retries
    /\ call_pc \in {"idle", "calling", "returned"}
    /\ call_pc = "returned" =>
          /\ call_verdict # NoVerdict
          /\ call_verdict.judge = call_judge
          /\ (call_content.kind \in {"raise", "none", "nonobj"}) =>
                /\ call_attempt = Retries
                /\ call_verdict.score_a = 5
                /\ call_verdict.score_b = 5
                /\ call_verdict.reason = "Error:"

\* The call returned after its third attempt raised.
C6_Witness ==
    /\ call_pc = "returned"
    /\ call_attempt = Retries
    /\ call_content = Raise
    /\ call_path = "error"

\* An attempt of a fighter call that gives a usable text: the cleaned
\* response is longer than 5 characters.
Usable(raw) == raw.kind = "text" /\ TextLen(clean_text(raw.text)) > 5

\* C7: a fighter call makes at most 2 attempts; it returns the cleaned text
\* of the first attempt whose cleaned response is longer than 5 characters,
\* and the silence marker when both attempts raise or give an empty or
\* short text.
C7_FighterRetryThenSilence ==
    /\ Len(resp_raws) <= 2
    /\ resp_pc \in {"idle", "calling", "returned"}
    /\ resp_pc = "calling" => \A k \in 1..Len(resp_raws) : ~Usable(resp_raws[k])
    /\ resp_pc = "returned" =>
          /\ \A k \in 1..(Len(resp_raws) - 1) : ~Usable(resp_raws[k])
          /\ IF Usable(resp_raws[Len(resp_raws)])
             THEN resp_text = clean_text(resp_raws[Len(resp_raws)].text)
             ELSE Len(resp_raws) = 2 /\ resp_text = Silence

\* A call whose first attempt gave a text of exactly 5 characters and whose
\* second attempt gave a longer one, which was returned.
C7_Witness ==
    /\ resp_pc = "returned"
    /\ Len(resp_raws) = 2
    /\ resp_raws[1].kind = "text"
    /\ TextLen(clean_text(resp_raws[1].text)) = 5
    /\ Usable(resp_raws[2])
    /\ resp_text = clean_text(resp_raws[2].text)

\* C8: sudden death is run if and only if, after round 5 is scored, as many
\* judges favour red as favour blue; it never starts before round 5 is
\* scored.
C8_SuddenDeathIffTied ==
    /\ sd_started => (Len(rounds) = LastRound /\ RedPicks = BluePicks)
    /\ fight_pc \in {"sd_turn_a", "sd_turn_b", "sd_judging"} => sd_started
    /\ fight_pc = "complete" => (sd_started <=> RedPicks = BluePicks)

\* A finished fight that went through sudden death on the picks red, blue, draw.
C8_Witness ==
    /\ fight_pc = "complete"
    /\ sd_started
    /\ RedPicks = 1
    /\ BluePicks = 1

\* C9 as claimed: a fight that ends without sudden death is won by the side
\* with more picks, Unanimous exactly on 3-0 and Split exactly on 2-1, and
\* is one or the other.
C9_UnanimousOrTwoOne ==
    (fight_pc = "complete" /\ ~sd_started) =>
        /\ winner_key = (IF RedPicks > BluePicks THEN "red" ELSE "blue")
        /\ res = "Unanimous" <=> {RedPicks, BluePicks} = {3, 0}
        /\ res = "Split" <=> {RedPicks, BluePicks} = {2, 1}
        /\ res \in {"Unanimous", "Split"}

\* C9 as amended: a fight that ends without sudden death is won by the side
\* with strictly more picks; the decision is Unanimous exactly on 3-0 and
\* Split on every other count, which is 2-1, 2-0 or 1-0.
C9_UnanimousOrSplit ==
    (fight_pc = "complete" /\ ~sd_started) =>
        /\ RedPicks # BluePicks
        /\ winner_key = (IF RedPicks > BluePicks THEN "red" ELSE "blue")
        /\ res = "Unanimous" <=> {RedPicks, BluePicks} = {3, 0}
        /\ res = "Split" <=> {RedPicks, BluePicks} \in {{2, 1}, {2, 0}, {1, 0}}
        /\ res \in {"Unanimous", "Split"}

\* A fight decided Split on two picks for one side and one judge drawn.
C9_Witness ==
    /\ fight_pc = "complete"
    /\ ~sd_started
    /\ res = "Split"
    /\ RedPicks + BluePicks = 2

\* Every judge scored red above blue in each of the five rounds.
RedSweep ==
    /\ Len(rounds) = LastRound
    /\ \A n \in 1..Len(rounds) : Len(rounds[n].verdicts) = Len(judges)
    /\ \A e \in Logged : LoggedVerdict(e).score_a > LoggedVerdict(e).score_b

\* C10: when all 3 judges score red above blue in each of the five rounds,
\* the fight ends with winner red and decision Unanimous, and sudden death
\* is never entered.
C10_RedSweepIsUnanimous ==
    RedSweep =>
        /\ ~sd_started
        /\ fight_pc \in {"finalize", "complete", "done", "aborted"}
        /\ fight_pc \in {"complete", "done"} => (winner_key = "red" /\ res = "Unanimous")

\* A finished fight after a red sweep.
C10_Witness == RedSweep /\ fight_pc = "complete" /\ winner_key = "red"

\* The sudden-death votes cast for one side.
SdVotesFor(side) == Cardinality({i \in 1..Len(sd_votes) : sd_votes[i] = side})

\* C11: once the sudden-death loop has run, every judge has cast exactly one
\* vote, red or blue; a verdict returned with score_a = score_b has been
\* adjusted to score_a > score_b and counted for red; the votes of the 3
\* judges are not split evenly, and the winner is the side with strictly
\* more votes, red or blue.
C11_SuddenDeathVotes ==
    sd_votes # <<>> =>
        /\ Len(sd_votes) = Len(judges)
        /\ Len(sd_verdicts) = Len(judges)
        /\ \A i \in 1..Len(sd_votes) :
              /\ sd_votes[i] \in {"red", "blue"}
              /\ sd_verdicts[i].score_a # sd_verdicts[i].score_b
              /\ sd_votes[i] = "red" <=> sd_verdicts[i].score_a > sd_verdicts[i].score_b
              /\ task_verdict[i].score_a = task_verdict[i].score_b =>
                    /\ sd_verdicts[i].score_a = task_verdict[i].score_a + 1
                    /\ sd_verdicts[i].score_b = task_verdict[i].score_b
                    /\ sd_votes[i] = "red"
        /\ sd_red = SdVotesFor("red")
        /\ sd_blue = SdVotesFor("blue")
        /\ sd_red + sd_blue = Len(judges)
        /\ sd_red # sd_blue
        /\ winner_key \in {"red", "blue"}
        /\ winner_key = "red" <=> sd_red > sd_blue
        /\ winner_key = "blue" <=> sd_blue > sd_red

\* A sudden death in which one judge returned equal scores and another judge
\* voted for blue.
C11_Witness ==
    /\ sd_votes # <<>>
    /\ \E i \in 1..Len(sd_votes) : task_verdict[i].score_a = task_verdict[i].score_b
    /\ \E i \in 1..Len(sd_votes) : sd_votes[i] = "blue"

Completed == fight_pc = "done" /\ winner_key \in {"red", "blue"} /\ res # "none"

C14_SavedDocumentHasOutcome ==
    \A k \in 1..Len(saved) :
        /\ saved[k].winner \in {"red", "blue"}
        /\ saved[k].decision_type \in {"Unanimous", "Split", "Sudden Death"}
        /\ saved[k].aggregate_scores = [red |-> total_red_score, blue |-> total_blue_score]

\* C15: when the loaded pool has fewer than 5 models, the flow stops after
\* the pool test with an error event sent: no fighter is selected, no
\* JudgeRotation is built and get_judges is not called, no FightManager is
\* built, no fighter or judge call is made and no fight_init event is sent.
C15_ShortPoolStartsNoFight ==
    (Len(all_models) < MinPool /\ match_pc # "load") =>
        /\ match_pc = "stopped"
        /\ events = <<Ev("error", 0, "")>>
        /\ fighter_a = NoModel
        /\ fighter_b = NoModel
        /\ pool = <<>>
        /\ rot_pc = "idle"
        /\ rot_judges = <<>>
        /\ judges = <<>>
        /\ fight_pc = "idle"
        /\ prompts = <<>>
        /\ task_attempt = <<>>

\* A connection that was refused on a pool of four models.
C15_Witness ==
    /\ Len(all_models) = MinPool - 1
    /\ match_pc = "stopped"
    /\ events # <<>>

\* Some model of the pool has another lab than fighter_a.
OtherLabExists == \E m \in Range(all_models) : lab[m] # lab[fighter_a]

\* C16: for a pool of at least 5 unique identifiers, the two fighters
\* differ; they are of different labs whenever the pool holds a model whose
\* lab differs from the first fighter's; and the fight is created with
\* exactly 3 distinct judges none of whom is a fighter.
C16_MatchupSelection ==
    /\ match_pc \in {"rotator", "judges", "fighting"} =>
          /\ Len(all_models) >= MinPool
          /\ fighter_a \in Range(all_models)
          /\ fighter_b \in Range(all_models)
          /\ fighter_a # fighter_b
          /\ OtherLabExists => lab[fighter_b] # lab[fighter_a]
    /\ match_pc = "fighting" =>
          /\ Len(judges) = PanelSize
          /\ Cardinality(Range(judges)) = PanelSize
          /\ Range(judges) \subseteq Range(all_models)
          /\ Range(judges) \cap {fighter_a, fighter_b} = {}

\* A fight created with fighters of different labs, picked from a pool in
\* which fighter_a's lab has other models too.
C16_Witness ==
    /\ match_pc = "fighting"
    /\ lab[fighter_a] # lab[fighter_b]
    /\ \E m \in Range(all_models) : m # fighter_a /\ lab[m] = lab[fighter_a]

\* The events of seq that are no intermission events, in order.
RECURSIVE WithoutIntermission(_)
WithoutIntermission(seq) ==
    IF seq = <<>> THEN <<>>
    ELSE (IF Head(seq).type # "intermission" THEN <<Head(seq)>> ELSE <<>>)
             \o WithoutIntermission(Tail(seq))

IsPrefix(a, b) == Len(a) <= Len(b) /\ \A k \in 1..Len(a) : a[k] = b[k]

\* What the order of the events is about: the type of an event, the round a
\* round event names, the judge a verdict event names and the side a
\* fighter event names.
Shape(e) ==
    [type |-> e.type,
     num |-> e.num,
     who |-> IF e.type \in {"fighter_thinking", "fighter_speaking"} THEN e.who ELSE ""]

\* The events of the fight without the intermission events between rounds.
FightEvents ==
    LET kept == WithoutIntermission(events)
    IN  [k \in 1..Len(kept) |-> Shape(kept[k])]

\* The events of the two turns and of the judging, in the order C17 gives.
TurnsAndVerdicts ==
    <<Ev("fighter_thinking", 0, "red"), Ev("fighter_speaking", 0, "red"),
      Ev("fighter_thinking", 0, "blue"), Ev("fighter_speaking", 0, "blue"),
      Ev("judging_start", 0, "")>>
        \o [i \in JudgeIdx |-> Ev("verdict_received", i - 1, "")]

RoundEvents(n) == <<Ev("round_start", n, "")>> \o TurnsAndVerdicts \o <<Ev("round_result", n, "")>>

RECURSIVE RoundsEvents(_)
RoundsEvents(n) == IF n = 0 THEN <<>> ELSE RoundsEvents(n - 1) \o RoundEvents(n)

\* The whole event sequence of a fight without, and with, sudden death.
PlainFightEvents ==
    <<Ev("fight_init", 0, "")>> \o RoundsEvents(LastRound) \o <<Ev("fight_complete", 0, "")>>

SuddenDeathFightEvents ==
    <<Ev("fight_init", 0, "")>> \o RoundsEvents(LastRound)
        \o <<Ev("sudden_death_start", 0, "")>> \o TurnsAndVerdicts
        \o <<Ev("fight_complete", 0, "")>>

\* C17: the events of a fight come in strict round-ascending order:
\* fight_init, then for n = 1..5 round_start(n), the two turns (red first),
\* judging_start, one verdict_received per judge, round_result(n);
\* sudden_death_start only after round_result(5); fight_complete last.  At
\* every moment the events sent so far (the intermission events set aside)
\* are a beginning of that sequence, and a finished fight has sent all of it.
C17_EventsInRoundOrder ==
    /\ \/ IsPrefix(FightEvents, PlainFightEvents)
       \/ IsPrefix(FightEvents, SuddenDeathFightEvents)
    /\ fight_pc = "done" =>
          FightEvents = (IF sd_started THEN SuddenDeathFightEvents ELSE PlainFightEvents)

\* A fight finished through sudden death in which a fighter call needed its
\* second attempt.
C17_Witness ==
    /\ fight_pc = "done"
    /\ sd_started
    /\ fighter_script = "retry"

\* The ten event types of the event stream.
ListedTypes ==
    {"fight_init", "round_start", "fighter_thinking", "fighter_speaking", "judging_start",
     "verdict_received", "round_result", "sudden_death_start", "fight_complete", "error"}

\* C18 as claimed: every event sent during a fight has one of the ten
\* listed types.
C18_OnlyListedTypes == \A k \in 1..Len(events) : events[k].type \in ListedTypes

\* C18 as amended: every event sent during a fight has one of the ten
\* listed types or the type intermission, and an intermission event comes
\* only right after the round_result of one of the rounds 1..4.
C18_ListedTypesOrIntermission ==
    \A k \in 1..Len(events) :
        \/ events[k].type \in ListedTypes
        \/ /\ events[k].type = "intermission"
           /\ k > 1
           /\ events[k - 1].type = "round_result"
           /\ events[k - 1].num \in 1..(LastRound - 1)

\* A finished fight: its events hold the four intermissions and end with
\* fight_complete.
C18_Witness ==
    /\ fight_pc = "done"
    /\ Cardinality({k \in 1..Len(events) : events[k].type = "intermission"}) = LastRound - 1
    /\ events[Len(events)].type = "fight_complete"

\* The number of events of a type that name a side.
Sent(type, who) ==
    Cardinality({k \in 1..Len(events) : events[k].type = type /\ events[k].who = who})

\* The fighter calls of a side that have started and not yet returned: a
\* call starts after fighter_thinking and its text is sent in fighter_speaking.
InFlight(who) == Sent("fighter_thinking", who) - Sent("fighter_speaking", who)

\* The judge tasks of a round or of sudden death have been created and their
\* gather has not completed.
JudgeCallsInFlight ==
    Sent("judging_start", "") > Len(rounds) + (IF sd_votes # <<>> THEN 1 ELSE 0)

\* C19: the fighter calls of a fight are strictly sequential.  At most one
\* fighter call is in flight; blue's k-th call starts only after red's k-th
\* call has returned its final text, and red's next call only after blue's
\* has; no fighter call is in flight while the judge calls are.
C19_FighterCallsSequential ==
    /\ InFlight("red") \in {0, 1}
    /\ InFlight("blue") \in {0, 1}
    /\ InFlight("red") + InFlight("blue") <= 1
    /\ Sent("fighter_thinking", "blue") <= Sent("fighter_speaking", "red")
    /\ Sent("fighter_thinking", "red") <= Sent("fighter_speaking", "blue") + 1
    /\ Len(prompts) = Sent("fighter_thinking", "red") + Sent("fighter_thinking", "blue")
    /\ JudgeCallsInFlight => InFlight("red") + InFlight("blue") = 0
    /\ (\E i \in 1..Len(task_attempt) : task_attempt[i] > 0 /\ task_verdict[i] = NoVerdict) =>
           (JudgeCallsInFlight /\ InFlight("red") + InFlight("blue") = 0)

\* Blue's sudden-death call is in flight after a failed first attempt.
C19_Witness ==
    /\ fight_pc = "sd_turn_b"
    /\ turn_attempt = 1
    /\ InFlight("blue") = 1

\* Red's text of round n as recorded: in the history, and in the round log
\* once the round is logged.
RecordedRed(n) == history[2 * n - 1].content

RecordedBlue(n) == history[2 * n].content

\* C20: in round 1 both fighters get the fixed opening prompts (FOR for red,
\* AGAINST for blue), which quote no text; in every round n in 2..5 red's
\* prompt quotes exactly blue's recorded text of round n-1 and blue's prompt
\* quotes exactly red's recorded text of round n, the silence marker included.
C20_PromptsQuotePrecedingTurn ==
    /\ \A n \in 1..Len(rounds) :
          rounds[n].red_text = RecordedRed(n) /\ rounds[n].blue_text = RecordedBlue(n)
    /\ \A k \in 1..Len(prompts) :
          LET q == prompts[k]
              n == q.round
          IN  /\ n = (k + 1) \div 2
              /\ q.fighter = (IF k % 2 = 1 THEN "red" ELSE "blue")
              /\ n = 1 =>
                    /\ q.kind = (IF q.fighter = "red" THEN "for" ELSE "against")
                    /\ q.quote = <<>>
              /\ (n \in 2..LastRound /\ q.fighter = "red") =>
                    /\ q.kind = "rebut"
                    /\ history[2 * (n - 1)].fighter = "blue"
                    /\ q.quote = RecordedBlue(n - 1)
                    /\ q.quote = rounds[n - 1].blue_text
              /\ (n \in 2..LastRound /\ q.fighter = "blue") =>
                    /\ q.kind = "rebut"
                    /\ history[2 * n - 1].fighter = "red"
                    /\ q.quote = RecordedRed(n)

\* A rebuttal prompt that quotes the silence marker, and one that quotes a
\* spoken text.
C20_Witness ==
    /\ \E k \in 1..Len(prompts) : prompts[k].kind = "rebut" /\ prompts[k].quote = Silence
    /\ \E k \in 1..Len(prompts) : prompts[k].kind = "rebut" /\ prompts[k].quote # Silence

\* C22: no fighter or judge call starts before the cooldown wait that
\* follows the previous round has elapsed: the calls of round n, for n in
\* 2..5, and the sudden-death calls, which follow round 5, start only once
\* the wait after the round before them is over.
C22_CallsAfterCooldown ==
    /\ prompts # <<>> => cooldowns >= prompts[Len(prompts)].round - 1
    /\ fight_pc \in {"turn_a", "turn_b", "judging", "sd_turn_a", "sd_turn_b", "sd_judging"} =>
          cooldowns >= CallRound - 1

\* The sum of one score over a list of verdicts, and over all verdicts of a
\* list of round records.
RECURSIVE VerdictsSum(_, _)
VerdictsSum(vs, key) ==
    IF vs = <<>> THEN 0 ELSE Head(vs)[key] + VerdictsSum(Tail(vs), key)

RECURSIVE RoundsSum(_, _)
RoundsSum(rs, key) ==
    IF rs = <<>> THEN 0 ELSE VerdictsSum(Head(rs).verdicts, key) + RoundsSum(Tail(rs), key)

\* The logged rounds in which judge i scored red higher, and blue higher.
RoundsForRed(i) ==
    {n \in 1..Len(rounds) : rounds[n].verdicts[i].score_a > rounds[n].verdicts[i].score_b}

RoundsForBlue(i) ==
    {n \in 1..Len(rounds) : rounds[n].verdicts[i].score_b > rounds[n].verdicts[i].score_a}

\* The totals and the tallies are those of the logged rounds.
TotalsMatchLog ==
    /\ total_red_score = RoundsSum(rounds, "score_a")
    /\ total_blue_score = RoundsSum(rounds, "score_b")
    /\ \A i \in JudgeIdx :
          /\ judge_round_wins[judges[i]].red = Cardinality(RoundsForRed(i))
          /\ judge_round_wins[judges[i]].blue = Cardinality(RoundsForBlue(i))

\* C21: in a round and in sudden death the judges are asked concurrently and
\* the round goes on only after the join: as long as one judge of the round
\* has not returned its verdict, no verdict of the round is tallied (the
\* totals and the per-judge tallies are those of the logged rounds, the
\* sudden-death counts are 0), no verdict_received or round_result event of
\* the round is sent and no record of the round is appended.
C21_NothingTalliedBeforeJoin ==
    (/\ fight_pc \in {"judging", "sd_judging", "cli_judging", "cli_sd_judging"}
     /\ \E i \in JudgeIdx : task_verdict[i] = NoVerdict) =>
        /\ TotalsMatchLog
        /\ sd_red = 0 /\ sd_blue = 0
        /\ Len(rounds) = IF sd_started THEN LastRound ELSE round_num - 1
        /\ Cardinality({k \in 1..Len(events) : events[k].type = "verdict_received"})
              = PanelSize * Len(rounds)
        /\ Cardinality({k \in 1..Len(events) : events[k].type = "round_result"}) = Len(rounds)

\* C23: after every scored round the running total of red is the sum of
\* score_a over all verdicts of all records of the round log, the running
\* total of blue is the sum of score_b over them, and for each judge the red
\* and the blue round-win tallies are the numbers of logged rounds in which
\* that judge scored red higher, respectively blue higher.
C23_TotalsAreLogSums ==
    /\ total_red_score = RoundsSum(rounds, "score_a")
    /\ total_blue_score = RoundsSum(rounds, "score_b")
    /\ \A i \in 1..Len(judges) :
          /\ judge_round_wins[judges[i]].red = Cardinality(RoundsForRed(i))
          /\ judge_round_wins[judges[i]].blue = Cardinality(RoundsForBlue(i))
          /\ judge_round_wins[judges[i]].red + judge_round_wins[judges[i]].blue <= Len(rounds)

\* Four rounds are scored; the log holds a drawn verdict of a failed judge,
\* and one judge has scored a round for red and another round for blue.
C23_Witness ==
    /\ Len(rounds) = 4
    /\ fight_pc = "intermission"
    /\ total_red_score > 0
    /\ \E e \in Logged : LoggedVerdict(e).score_a = LoggedVerdict(e).score_b
    /\ \E i \in JudgeIdx : RoundsForRed(i) # {} /\ RoundsForBlue(i) # {}

\* The value of rotation_index when the running call of get_judges began:
\* every fill step adds one to the index and to attempts.
IndexBefore == rotation_index - attempts

\* The providers of the pool that have an identifier that is no fighter.
EligibleProviders == {Provider(m) : m \in EligibleJudges}

\* C24 as stated: every call of get_judges advances rotation_index; after the
\* call the index is strictly greater than before it, for every pool and
\* every pair of fighters.
C24_EveryCallAdvances == rot_pc = "returned" => rotation_index > IndexBefore

\* C24, amended: a call of get_judges never decreases rotation_index and
\* advances it by the number of fill steps it takes.  The index is strictly
\* greater after the call exactly when the pool is not empty and fewer than
\* 3 of its providers have an identifier that is no fighter, so that the
\* diversity pass leaves the list short of 3 judges; otherwise the call
\* leaves the index as it was.
C24_AdvancesOnlyInFillPass ==
    /\ [](rot_pc = "returned" =>
            /\ rotation_index >= IndexBefore
            /\ rotation_index > IndexBefore <=>
                  (pool # <<>> /\ Cardinality(EligibleProviders) < PanelSize))
    /\ [][rotation_index' >= rotation_index]_vars

\* A call on a pool of 5 identifiers of 3 providers whose diversity pass chose
\* all 3 judges: the call returns with the index where it was.
C24_Witness ==
    /\ rot_pc = "returned"
    /\ Len(pool) = 5
    /\ Len(rot_judges) = 3
    /\ rotation_index = IndexBefore

\* C25: over any sequence of get_judges calls on one JudgeRotation the index
\* never decreases and grows by exactly one with every step of the fill
\* pass, the pool keeps its contents and its order, and the read pool[...] of
\* a fill step is made at rotation_index modulo the pool size, a position
\* inside the pool.
C25_IndexAndPoolFrame ==
    /\ [](rot_pc = "fill" /\ FillCondition =>
            /\ FillPosition \in 1..Len(pool)
            /\ FillPosition - 1 = rotation_index % Len(pool))
    /\ [][/\ pool' = pool
          /\ rotation_index' = rotation_index + (IF attempts' = attempts + 1 THEN 1 ELSE 0)]_vars

\* A fill step is about to read the pool with an index that has run past
\* the end of the pool, in a call that is not the first of the session.
C25_Witness ==
    /\ rot_pc = "fill"
    /\ FillCondition
    /\ rotation_index >= Len(pool)
    /\ IndexBefore > 0

\* The smaller of two numbers.
Min(a, b) == IF a < b THEN a ELSE b

\* C26: the panel get_judges returns has as many distinct providers as can
\* be had: the number of distinct provider prefixes among the returned
\* judges is min(3, k), where k is the number of provider groups of the pool
\* that hold at least one identifier that is no fighter.
C26_PanelMaximizesDiversity ==
    rot_pc = "returned" =>
        Cardinality({Provider(rot_judges[i]) : i \in 1..Len(rot_judges)})
            = Min(PanelSize, Cardinality(EligibleProviders))

\* A returned panel of 3 judges of 2 providers, picked among 4 identifiers
\* that are no fighters: the fighters are the only identifiers of the third
\* provider of the pool.
C26_Witness ==
    /\ rot_pc = "returned"
    /\ Len(rot_judges) = 3
    /\ Cardinality(EligibleJudges) > 3
    /\ Cardinality(PoolProviders(pool)) = 3
    /\ Cardinality(EligibleProviders) = 2

\* C27: get_judges terminates for every pool, the empty pool and a pool with
\* fewer than 3 identifiers that are no fighters included: the fill pass
\* takes at most 2 x pool-size steps, takes no step once 3 judges are chosen,
\* and the call returns when it can take no further step.
C27_FillPassTerminates ==
    /\ [](attempts <= 2 * Len(pool))
    /\ [][attempts' = attempts + 1 => Len(rot_judges) < PanelSize]_vars
    /\ [](rot_pc = "fill" => ENABLED (FillStep \/ GetJudgesReturn))
    /\ [](rot_pc = "returned" => Len(rot_judges) = PanelSize \/ attempts = 2 * Len(pool))

\* A call that returns fewer than 3 judges after 2 x pool-size fill steps on
\* a pool that is not empty.
C27_Witness ==
    /\ rot_pc = "returned"
    /\ pool # <<>>
    /\ Len(rot_judges) < PanelSize
    /\ attempts = 2 * Len(pool)

\* C28: malformed judge output is absorbed by the fallback chain of the
\* parser: whenever the request of an attempt returns a response text, that
\* same attempt returns a verdict parsed by the strict JSON step, the literal
\* step or the regex step; content that cannot be parsed or has an odd
\* shape neither uses up a retry nor leads to the "Error:" verdict.
C28_MalformedOutputAbsorbed ==
    call_content.kind \notin {"raise", "none"} =>
        /\ call_path \in {"json", "literal", "regex"}
        /\ call_pc = "returned"
        /\ call_verdict.reason # "Error:"

\* C29: after round n is scored the round log holds exactly n records,
\* numbered 1..n in ascending order, and a record once appended is never
\* changed: every step leaves the logged records as they are and adds at
\* most one record at the end; sudden death adds no record and leaves the
\* running totals as they are.
C29_RoundLogAppendOnly ==
    /\ [](\A n \in 1..Len(rounds) : rounds[n].round = n)
    /\ [](fight_pc \in {"turn_a", "turn_b", "judging"} => Len(rounds) = round_num - 1)
    /\ [](fight_pc \in {"intermission", "finalize", "sd_turn_a", "sd_turn_b", "sd_judging",
                        "complete", "done"} => Len(rounds) = round_num)
    /\ [][IsPrefix(rounds, rounds') /\ Len(rounds') <= Len(rounds) + 1]_vars
    /\ [][sd_started =>
             /\ rounds' = rounds
             /\ total_red_score' = total_red_score
             /\ total_blue_score' = total_blue_score]_vars

\* A fight decided in sudden death and saved: a judge voted red on level
\* scores, which raised score_a of its sudden-death verdict, and the log
\* holds the five round records.
C29_Witness ==
    /\ fight_pc = "done"
    /\ sd_started
    /\ Len(rounds) = LastRound
    /\ saved # <<>>
    /\ \E i \in 1..Len(sd_verdicts) : sd_verdicts[i].score_a = DefaultScore + 1

\* C30: each completed fight is persisted as its own document: two distinct
\* fights of one process never have the same fight id, and the file a fight
\* was saved to keeps holding the document of that fight, also when the
\* fights run at the same time on separate connections.
C30_OneDocumentPerFight ==
    /\ \A f, g \in Fights :
          (f # g /\ created[f] # NotYet /\ created[g] # NotYet) => fight_ids[f] # fight_ids[g]
    /\ \A f \in written : files[fight_ids[f]] = f

\* C31: whenever a fight is decided Unanimous, all 3 judges' summed scores
\* favouring one side, the aggregate total of the winner over the five
\* rounds is strictly greater than the aggregate total of the loser.
C31_UnanimousWinnerLeadsOnPoints ==
    res = "Unanimous" =>
        /\ Len(rounds) = LastRound
        /\ aggregate_scores = [red |-> total_red_score, blue |-> total_blue_score]
        /\ winner_key = "red" => aggregate_scores.red > aggregate_scores.blue
        /\ winner_key = "blue" => aggregate_scores.blue > aggregate_scores.red

\* A fight decided Unanimous for blue whose log holds verdicts that favour
\* red and the drawn verdict of a failed judge.
C31_Witness ==
    /\ fight_pc = "complete"
    /\ res = "Unanimous"
    /\ winner_key = "blue"
    /\ \E e \in Logged : LoggedVerdict(e).score_a > LoggedVerdict(e).score_b
    /\ \E e \in Logged : LoggedVerdict(e).reason = "Error:"

\* The judges whose sudden-death call failed on every attempt.
SdFailed == {i \in JudgeIdx : task_verdict[i] = ErrorVerdict(judges[i])}

\* C32: in run_sudden_death a verdict arrives with score_a = score_b only
\* from a judge whose call failed on every attempt (the 5/5 error verdict);
\* so the loop raises score_a only of the verdicts of failed judges, each of
\* which votes red, and when all three judges fail the winner is red.
C32_SuddenDeathDrawOnlyOnFailure ==
    /\ fight_pc = "sd_judging" =>
          \A i \in JudgeIdx :
              (task_verdict[i] # NoVerdict /\ task_verdict[i].score_a = task_verdict[i].score_b)
                  => (i \in SdFailed /\ task_attempt[i] = Retries)
    /\ (sd_started /\ sd_votes # <<>>) =>
          /\ \A i \in JudgeIdx :
                /\ sd_verdicts[i] # task_verdict[i] => i \in SdFailed
                /\ i \in SdFailed =>
                      (sd_votes[i] = "red" /\ sd_verdicts[i].score_a = DefaultScore + 1)
          /\ SdFailed = JudgeIdx => winner_key = "red"

\* A sudden death decided with one judge that failed on every attempt, whose
\* verdict was raised for red, next to a judge whose level scores the
\* tie-breaker of the parser had already split in favour of blue.
C32_Witness ==
    /\ fight_pc = "complete"
    /\ sd_started
    /\ sd_votes # <<>>
    /\ SdFailed # {}
    /\ \E i \in JudgeIdx :
          /\ task_verdict[i].score_b = task_verdict[i].score_a + 1
          /\ task_verdict[i].score_a = 6
          /\ sd_votes[i] = "blue"

\* The decision class a decision_type of the command-line flow stands for.
DecisionClass(decision_type) ==
    CASE decision_type = "Unanimous Decision" -> "Unanimous"
      [] decision_type = "Split Decision" -> "Split"
      [] decision_type = "Sudden Death Victory" -> "Sudden Death"
      [] OTHER -> "none"

\* C33: the two flows agree on the outcome: on the same judges, the same
\* verdict scores of rounds 1..5 and the same sudden-death verdict scores,
\* run_fight_loop and the FightManager flow of websocket_endpoint both enter
\* sudden death or both do not, and they declare the same winner and the same
\* decision class.
C33_FlowsAgreeOnOutcome ==
    (res # "none" /\ fight_data.decision_type # "None") =>
        /\ sd_started <=> fight_data.decision_type = "Sudden Death Victory"
        /\ winner_key = fight_data.winner
        /\ res = DecisionClass(fight_data.decision_type)

\* Both flows have decided a fight that went to sudden death, where a judge
\* gave level scores other than 5/5 and red won by two votes to one.
C33_Witness ==
    /\ fight_pc = "outcome"
    /\ res = "Sudden Death"
    /\ fight_data.decision_type = "Sudden Death Victory"
    /\ winner_key = "red"
    /\ \E i \in JudgeIdx : task_verdict[i].score_a = 6 /\ task_verdict[i].score_b = 6
    /\ \E i \in JudgeIdx : task_verdict[i].score_b > task_verdict[i].score_a
    /\ Cardinality({i \in JudgeIdx : task_verdict[i].score_a > task_verdict[i].score_b}) = 1

====
